---- MODULE Spec2Model ----
(***************************************************************************)
(* A model of the social-media sandbox: the recommendation engine, the     *)
(* content pool, the three agent roles (Individual, Bot, Organisation),    *)
(* the typestate IndividualAgent<S> with its transition policy, and the    *)
(* Simulation driver.                                                      *)
(*                                                                         *)
(* Numbers.  Every f32 of the program is a fixed-point integer here with   *)
(* Scale units to 1.0 (1.0 = 1000, 0.5 = 500); a cast `as i32` is the      *)
(* truncating \div.  random::<f32>() is a draw from Draws (values of       *)
(* [0,1)), random u32 ids are draws from Ids.  Time is counted in hours.   *)
(***************************************************************************)
EXTENDS Integers, Sequences, FiniteSets, TLC

VARIABLES
    agents,         \* Simulation.agents: the agent list, in iteration order
    content_pool,   \* Simulation.engine.content_pool
    clock,          \* the wall clock (Utc::now), in hours
    last_tick,      \* Simulation.last_tick
    tick_idx,       \* position of Simulation::tick's loop: 0 = not in a tick
    new_content,    \* Simulation::tick's local batch of returned content
    tick_start_pool,\* history: the pool as it was when the running tick began
    aborted,        \* Running, or the call whose panic ended the program
    api_calls,      \* how many engine entry points outside callers have called
    w_agent,        \* an IndividualWrapper (typestate agent)
    w_engine,       \* the content pool of the engine handed to the wrapper
    w_result,       \* outcome of the last typestate operation
    o_agents,       \* order check: the agent list after a tick in list order
    o_pool,         \* order check: the pool after that tick
    p_agents,       \* order check: the agents after the same tick, permuted order
    p_pool,         \* order check: the pool after the permuted tick
    o_perm,         \* order check: the permutation used
    e_pool,         \* engine check: the content pool of an engine
    e_result,       \* engine check: the last query made of it and its answer
    f_profile,      \* profile check: an InterestProfile
    f_result        \* profile check: the last operation on it and its result

vars == <<agents, content_pool, clock, last_tick, tick_idx, new_content,
          tick_start_pool, aborted, api_calls, w_agent, w_engine, w_result,
          o_agents, o_pool, p_agents, p_pool, o_perm, e_pool, e_result,
          f_profile, f_result>>

simVars == <<agents, content_pool, clock, last_tick, tick_idx, new_content,
             tick_start_pool, aborted, api_calls>>
wVars == <<w_agent, w_engine, w_result>>
oVars == <<o_agents, o_pool, p_agents, p_pool, o_perm>>
eVars == <<e_pool, e_result>>
fVars == <<f_profile, f_result>>

----------------------------------------------------------------------------
(* Bounds of the model *)

MaxId == 2            \* ids are drawn from 1..MaxId (the program: any u32)
MaxPool == 3          \* the pool holds at most MaxPool posts
MaxComments == 2      \* a post holds at most MaxComments comments
MaxTicks == 3         \* the clock stops at MaxTicks
MaxPostLength == 3    \* config.max_post_length
MaxCommentLength == 2 \* config.max_comment_length
BotCreationTicks == 2 \* config.bot_creation_ticks
VecDim == 2           \* dimension of vector_representation

Scale == 10 * 100     \* fixed-point units to 1.0

Ids == 1..MaxId
Draws == {0, 750}             \* random::<f32>() in [0, 1)
TickRate == 1                 \* config.tick_rate_ms, in clock units
RecommendationCount == 10

----------------------------------------------------------------------------
(* Generic helpers *)

Min(a, b) == IF a < b THEN a ELSE b
Max(a, b) == IF a > b THEN a ELSE b
Clamp(x, lo, hi) == Max(lo, Min(x, hi))

Range(s) == {s[i] : i \in DOMAIN s}
Contains(s, x) == \E i \in DOMAIN s : s[i] = x
Take(s, n) == SubSeq(s, 1, Min(n, Len(s)))

RECURSIVE SumOver(_, _)
SumOver(f, S) ==
    IF S = {} THEN 0
    ELSE LET x == CHOOSE y \in S : TRUE IN f[x] + SumOver(f, S \ {x})

RECURSIVE ISqrtBetween(_, _, _)
\* the largest r in lo..hi with r * r <= n, by bisection
ISqrtBetween(n, lo, hi) ==
    IF lo >= hi THEN lo
    ELSE CHOOSE r \in {IF mid * mid <= n THEN ISqrtBetween(n, mid, hi)
                                         ELSE ISqrtBetween(n, lo, mid - 1) :
                       mid \in {(lo + hi + 1) \div 2}} : TRUE

\* the integer square root, for n up to (2 * Scale)^2
ISqrt(n) == ISqrtBetween(n, 0, 2 * Scale)

----------------------------------------------------------------------------
(* InterestProfile (models/interest.rs) *)

ZeroVector == [i \in 0..(VecDim - 1) |-> 0]

Topic(w, a) == [weighted_interest |-> w, agreement |-> a]

\* InterestProfile::new
NewProfile ==
    [interests |-> <<>>, total_weight |-> 0, vector_representation |-> ZeroVector]

ProfileOf(interests) ==
    [interests |-> interests, total_weight |-> 0,
     vector_representation |-> ZeroVector]

WeightSum(interests) ==
    SumOver([t \in DOMAIN interests |-> interests[t].weighted_interest],
            DOMAIN interests)

\* normalise_weights that divides by the total plus one
normalise_weights_damped(p) ==
    LET total == WeightSum(p.interests) IN
    IF total = 0 THEN [p EXCEPT !.total_weight = 0]
    ELSE [p EXCEPT
            !.interests = [t \in DOMAIN p.interests |->
                Topic((p.interests[t].weighted_interest * Scale) \div (total + Scale),
                      p.interests[t].agreement)],
            !.total_weight = Scale]

\* normalise_weights that divides the agreement of a topic as well
normalise_weights_and_agreement(p) ==
    LET total == WeightSum(p.interests) IN
    IF total = 0 THEN [p EXCEPT !.total_weight = 0]
    ELSE [p EXCEPT
            !.interests = [t \in DOMAIN p.interests |->
                Topic((p.interests[t].weighted_interest * Scale) \div total,
                      (p.interests[t].agreement * Scale) \div total)],
            !.total_weight = Scale]

\* normalise_weights that records the total and leaves the weights as they are
normalise_weights_total_only(p) ==
    LET total == WeightSum(p.interests) IN
    IF total = 0 THEN [p EXCEPT !.total_weight = 0]
    ELSE [p EXCEPT !.total_weight = Scale]

\* InterestProfile::normalise_weights: the vector is not touched
normalise_weights(p) ==
    LET total == WeightSum(p.interests) IN
    IF total = 0 THEN [p EXCEPT !.total_weight = 0]
    ELSE [p EXCEPT
            !.interests = [t \in DOMAIN p.interests |->
                Topic((p.interests[t].weighted_interest * Scale) \div total,
                      p.interests[t].agreement)],
            !.total_weight = Scale]

\* update_interest_from_profile that gives a new topic the source's agreement
update_interest_from_profile_copying_agreement(p, source, interest) ==
    LET old(t) == IF t \in DOMAIN p.interests THEN p.interests[t]
                  ELSE Topic(0, source.interests[t].agreement)
        added(t) == IF t \in DOMAIN source.interests
                    THEN (source.interests[t].weighted_interest * interest) \div Scale
                    ELSE 0
        dom == DOMAIN p.interests \cup DOMAIN source.interests
    IN normalise_weights([p EXCEPT !.interests =
            [t \in dom |-> Topic(old(t).weighted_interest + added(t),
                                 old(t).agreement)]])

\* update_interest_from_profile that adds the weights and does not renormalise
update_interest_from_profile_unnormalised(p, source, interest) ==
    LET old(t) == IF t \in DOMAIN p.interests THEN p.interests[t] ELSE Topic(0, 0)
        added(t) == IF t \in DOMAIN source.interests
                    THEN (source.interests[t].weighted_interest * interest) \div Scale
                    ELSE 0
        dom == DOMAIN p.interests \cup DOMAIN source.interests
    IN [p EXCEPT !.interests =
            [t \in dom |-> Topic(old(t).weighted_interest + added(t),
                                 old(t).agreement)]]

\* InterestProfile::update_interest_from_post / update_interest_from_profile
update_interest_from_profile(p, source, interest) ==
    LET old(t) == IF t \in DOMAIN p.interests THEN p.interests[t] ELSE Topic(0, 0)
        added(t) == IF t \in DOMAIN source.interests
                    THEN (source.interests[t].weighted_interest * interest) \div Scale
                    ELSE 0
        dom == DOMAIN p.interests \cup DOMAIN source.interests
    IN normalise_weights([p EXCEPT !.interests =
            [t \in dom |-> Topic(old(t).weighted_interest + added(t),
                                 old(t).agreement)]])

\* filtered_clone that keeps every topic, whatever tags were selected
filtered_clone_whole(p, selected_tags) ==
    normalise_weights(ProfileOf(
        [t \in DOMAIN p.interests |->
            Topic(p.interests[t].weighted_interest, p.interests[t].agreement)]))

\* InterestProfile::filtered_clone
filtered_clone(p, selected_tags) ==
    normalise_weights(ProfileOf(
        [t \in (selected_tags \cap DOMAIN p.interests) |->
            Topic(p.interests[t].weighted_interest, p.interests[t].agreement)]))

----------------------------------------------------------------------------
(* Content (models/content.rs) *)

\* Content::new / AgentCore::generate_content build a post with these fields
Post(id, creator_id, timestamp, profile, length) ==
    [id |-> id, creator_id |-> creator_id, timestamp |-> timestamp,
     interest_profile |-> profile, length |-> length,
     readers |-> <<>>, comments |-> <<>>, engagement_score |-> 0]

\* Comment::new(commentor_id, interest_profile, config): the id is a fresh draw
Comment(id, commentor_id, timestamp, profile, length) ==
    [id |-> id, commentor_id |-> commentor_id, timestamp |-> timestamp,
     interest_profile |-> profile, length |-> length, engagement_score |-> 0]

\* increase_engagement that counts the engagement in the length as well
increase_engagement_and_length(post) ==
    [post EXCEPT !.engagement_score = @ + Scale, !.length = @ + 1]

\* Content::increase_engagement: engagement_score += 1.0
increase_engagement(post) ==
    [post EXCEPT !.engagement_score = @ + Scale]

----------------------------------------------------------------------------
(* RecommendationEngine (engine/recommendation.rs) *)

InterestWeight == 500      \* config.interest_weight   0.5
RecencyWeight == 300       \* config.recency_weight    0.3
EngagementWeight == 200    \* config.engagement_weight 0.2
DecayPerHour == 951        \* exp(-0.05), the factor of one hour of age

None == [kind |-> "None"]
Some(x) == [kind |-> "Some", value |-> x]

\* iter().position(|c| c.id == id): the first index holding the id, 0 if none
IndexOfId(seq, id) ==
    IF \E i \in DOMAIN seq : seq[i].id = id
    THEN CHOOSE i \in DOMAIN seq :
            /\ seq[i].id = id
            /\ \A j \in 1..(i - 1) : seq[j].id # id
    ELSE 0

\* RecommendationEngine::get_content_by_id
get_content_by_id(pool, content_id) ==
    IF IndexOfId(pool, content_id) = 0 THEN None
    ELSE Some(pool[IndexOfId(pool, content_id)])

\* RecommendationEngine::calculate_vector_similarity
calculate_vector_similarity(vec1, vec2) ==
    LET dot_product == SumOver([i \in DOMAIN vec1 |-> vec1[i] * vec2[i]], DOMAIN vec1)
        magnitude1 == ISqrt(SumOver([i \in DOMAIN vec1 |-> vec1[i] * vec1[i]], DOMAIN vec1))
        magnitude2 == ISqrt(SumOver([i \in DOMAIN vec2 |-> vec2[i] * vec2[i]], DOMAIN vec2))
    IN IF magnitude1 = 0 \/ magnitude2 = 0 THEN 0
       ELSE Clamp((dot_product * Scale) \div (magnitude1 * magnitude2), 0, Scale)

RECURSIVE RecencyScore(_)
\* (-0.05 * hours_old).exp(), one factor of exp(-0.05) per hour of age
RecencyScore(hours_old) ==
    IF hours_old = 0 THEN Scale
    ELSE IF hours_old > 0 THEN (RecencyScore(hours_old - 1) * DecayPerHour) \div Scale
    ELSE (RecencyScore(hours_old + 1) * Scale) \div DecayPerHour

\* RecommendationEngine::new: the config every engine is built with
DefaultConfig ==
    [interest_weight |-> InterestWeight, recency_weight |-> RecencyWeight,
     engagement_weight |-> EngagementWeight]

\* the weighted sum of calculate_content_score, returned without the clamp
content_score_unclamped(config, post, agent_interest_profile, current_time) ==
    LET interest_alignment ==
            calculate_vector_similarity(agent_interest_profile.vector_representation,
                                        post.interest_profile.vector_representation)
        recency_score == RecencyScore(current_time - post.timestamp)
    IN (interest_alignment * config.interest_weight
        + recency_score * config.recency_weight
        + post.engagement_score * config.engagement_weight) \div Scale

\* RecommendationEngine::calculate_content_score of an engine with this config
content_score(config, post, agent_interest_profile, current_time) ==
    LET interest_alignment ==
            calculate_vector_similarity(agent_interest_profile.vector_representation,
                                        post.interest_profile.vector_representation)
        recency_score == RecencyScore(current_time - post.timestamp)
        score == (interest_alignment * config.interest_weight
                  + recency_score * config.recency_weight
                  + post.engagement_score * config.engagement_weight) \div Scale
    IN Clamp(score, 0, Scale)

\* RecommendationEngine::calculate_content_score
calculate_content_score(post, agent_interest_profile, current_time) ==
    content_score(DefaultConfig, post, agent_interest_profile, current_time)

RECURSIVE InsertByScore(_, _)
\* where a stable descending sort puts x among the already sorted `sorted`
InsertByScore(sorted, x) ==
    IF sorted = <<>> THEN <<x>>
    ELSE IF Head(sorted).score >= x.score
         THEN <<Head(sorted)>> \o InsertByScore(Tail(sorted), x)
         ELSE <<x>> \o sorted

RECURSIVE SortByScoreDesc(_)
\* sort_by(|a, b| b.score.partial_cmp(&a.score)): stable, highest score first
SortByScoreDesc(s) ==
    IF s = <<>> THEN <<>>
    ELSE InsertByScore(SortByScoreDesc(SubSeq(s, 1, Len(s) - 1)), s[Len(s)])

RECURSIVE NotViewed(_, _)
\* .filter(|content| !viewed_posts.contains(&content.id))
NotViewed(pool, viewed_posts) ==
    IF pool = <<>> THEN <<>>
    ELSE (IF Contains(viewed_posts, Head(pool).id) THEN <<>> ELSE <<Head(pool)>>)
         \o NotViewed(Tail(pool), viewed_posts)

\* get_post_recommendations without its filter on viewed_posts
get_post_recommendations_unfiltered(pool, interest_profile, viewed_posts, count, current_time) ==
    LET scored_posts == [i \in DOMAIN pool |->
            [id |-> pool[i].id,
             score |-> calculate_content_score(pool[i], interest_profile,
                                               current_time)]]
        sorted == Take(SortByScoreDesc(scored_posts), count)
    IN [i \in DOMAIN sorted |-> sorted[i].id]

\* get_post_recommendations without its sort: the candidates in pool order
get_post_recommendations_unsorted(pool, interest_profile, viewed_posts, count, current_time) ==
    LET candidates == NotViewed(pool, viewed_posts)
        scored_posts == [i \in DOMAIN candidates |->
            [id |-> candidates[i].id,
             score |-> calculate_content_score(candidates[i], interest_profile,
                                               current_time)]]
        sorted == Take(scored_posts, count)
    IN [i \in DOMAIN sorted |-> sorted[i].id]

\* RecommendationEngine::get_post_recommendations
get_post_recommendations(pool, interest_profile, viewed_posts, count, current_time) ==
    LET candidates == NotViewed(pool, viewed_posts)
        scored_posts == [i \in DOMAIN candidates |->
            [id |-> candidates[i].id,
             score |-> calculate_content_score(candidates[i], interest_profile,
                                               current_time)]]
        sorted == Take(SortByScoreDesc(scored_posts), count)
    IN [i \in DOMAIN sorted |-> sorted[i].id]

\* the comments sort by engagement_score, highest first (stable)
CommentsByEngagement(comments) ==
    LET keyed == [i \in DOMAIN comments |->
                    [score |-> comments[i].engagement_score, item |-> comments[i]]]
        sorted == SortByScoreDesc(keyed)
    IN [i \in DOMAIN sorted |-> sorted[i].item]

\* get_comment_recommendations without its sort: the comments in post order
get_comment_recommendations_unsorted(pool, post_id, current_comment_ids, count) ==
    IF IndexOfId(pool, post_id) = 0 THEN None
    ELSE Some(Take(NotViewed(pool[IndexOfId(pool, post_id)].comments,
                             current_comment_ids),
                   count))

\* RecommendationEngine::get_comment_recommendations
get_comment_recommendations(pool, post_id, current_comment_ids, count) ==
    IF IndexOfId(pool, post_id) = 0 THEN None
    ELSE Some(Take(CommentsByEngagement(
                NotViewed(pool[IndexOfId(pool, post_id)].comments, current_comment_ids)),
              count))

\* RecommendationEngine::increase_engagement_score, for an id that is found
increase_engagement_score(pool, content_id) ==
    [pool EXCEPT ![IndexOfId(pool, content_id)] = increase_engagement(@)]

\* RecommendationEngine::add_comment_to_post, for a post_id that is found
add_comment_to_post(pool, post_id, comment) ==
    [pool EXCEPT ![IndexOfId(pool, post_id)].comments = Append(@, comment)]

\* create_post that makes room by dropping the oldest post
create_post_evicting(pool, post) ==
    IF pool = <<>> THEN <<post>> ELSE Append(Tail(pool), post)

\* RecommendationEngine::create_post
create_post(pool, post) == Append(pool, post)

\* RecommendationsUtils::calculate_required_ticks
calculate_required_ticks(length, read_speed) ==
    (length * (Scale - read_speed)) \div Scale

BaseGain == 200            \* base_gain 0.2

\* RecommendationsUtils::calculate_interest_gain
calculate_interest_gain(agent_interest_profile, content_interest_profile) ==
    LET similarity ==
            IF DOMAIN agent_interest_profile.interests = {} THEN 0
            ELSE calculate_vector_similarity(
                    agent_interest_profile.vector_representation,
                    content_interest_profile.vector_representation)
        similarity_multiplier == Scale + Min(similarity, Scale)
    IN (BaseGain * similarity_multiplier) \div Scale

----------------------------------------------------------------------------
(* InterestProfile::select_content_tags (models/interest.rs) *)

MinContentTags == 1        \* config.min_content_tags
MaxContentTags == 2        \* config.max_content_tags

\* the orders sort_by can leave the (tag, weight) pairs in: weights descending,
\* equal weights in the HashMap's arbitrary iteration order
SortedOrders(p) ==
    LET dom == DOMAIN p.interests
        n == Cardinality(dom)
    IN {o \in [1..n -> dom] :
            /\ \A i, j \in 1..n : i # j => o[i] # o[j]
            /\ \A i \in 1..(n - 1) :
                 p.interests[o[i]].weighted_interest
                    >= p.interests[o[i + 1]].weighted_interest}

RECURSIVE RouletteIndex(_, _, _, _)
\* the roulette walk: subtract weights until random_weight <= 0; 0 if it never is
RouletteIndex(p, order, i, random_weight) ==
    IF i > Len(order) THEN 0
    ELSE LET left == random_weight - p.interests[order[i]].weighted_interest
         IN IF left <= 0 THEN i ELSE RouletteIndex(p, order, i + 1, left)

\* sequences of k distinct elements of S
DistinctSeqs(S, k) ==
    {q \in [1..k -> S] : \A i, j \in 1..k : i # j => q[i] # q[j]}

PanicTags == <<"panic">>   \* gen_range over an empty range panics

\* every result select_content_tags(min_tags, max_tags) can return
select_content_tags(p, min_tags, max_tags) ==
    LET dom == DOMAIN p.interests
        hi == Min(max_tags, Cardinality(dom))
    IN IF min_tags > hi THEN {PanicTags}
       ELSE IF dom = {} THEN {<<>>}
       ELSE UNION {
              LET hit == RouletteIndex(p, order, 1, r)
                  first == IF hit = 0 THEN order[1] ELSE order[hit]
              IN {<<first>> \o rest :
                    rest \in DistinctSeqs(dom \ {first}, Max(num_tags - 1, 0))}
              : order \in SortedOrders(p), r \in Draws, num_tags \in min_tags..hi}

----------------------------------------------------------------------------
(* AgentState and AgentCore (models/agents/common.rs) *)

Offline == [kind |-> "Offline"]
Scrolling(ids) == [kind |-> "Scrolling", recommended_post_ids |-> ids]
ReadingPost(post_id, creator_id, spent, required, gain) ==
    [kind |-> "ReadingPost", post_id |-> post_id, creator_id |-> creator_id,
     ticks_spent |-> spent, ticks_required |-> required,
     potential_interest_gain |-> gain]
ReadingComments(post_id, creator_id, ids, index, spent, required, gain) ==
    [kind |-> "ReadingComments", post_id |-> post_id, creator_id |-> creator_id,
     current_comment_ids |-> ids, current_comment_index |-> index,
     ticks_spent |-> spent, ticks_required |-> required,
     potential_interest_gain |-> gain]
CreatingPost(post_id, spent, required) ==
    [kind |-> "CreatingPost", post_id |-> post_id,
     ticks_spent |-> spent, ticks_required |-> required]
CreatingComment(post_id, comment_id, spent, required) ==
    [kind |-> "CreatingComment", post_id |-> post_id, comment_id |-> comment_id,
     ticks_spent |-> spent, ticks_required |-> required]

\* (random::<f32>() * max as f32) as i32
RandomLength(r, max) == (r * max) \div Scale

\* What one agent tick needs from the random source.  tags is a result of
\* select_content_tags; the r_ fields are random::<f32>() draws, the id fields
\* next_u32() draws.
NoDraw ==
    [r_offline |-> 0, r_select |-> 0, r_pick |-> 0, r_read_post |-> 0,
     r_read_comments |-> 0, r_write_comment |-> 0, r_scroll |-> 0,
     r_attention |-> 0, r_length |-> 0, r_ticks |-> 0,
     content_id |-> 1, state_id |-> 1, tags |-> <<>>]

\* AgentCore::generate_content, given the draws
generate_content(self, d, now) ==
    Post(d.content_id, self.id, now,
         filtered_clone(self.interest_profile, Range(d.tags)),
         RandomLength(d.r_length, MaxPostLength))

\* the outcome of one agent tick
Result(agent, pool, out) == [agent |-> agent, pool |-> pool, out |-> out, panic |-> FALSE]
Panicked(agent, pool) == [agent |-> agent, pool |-> pool, out |-> None, panic |-> TRUE]

----------------------------------------------------------------------------
(* Individual, the enum-state agent (models/agents/individual.rs) *)

Half == 500                \* the 0.5 of the should_* coin flips

\* Individual::should_select_post, should_read_post, should_read_comments,
\* should_write_comment, should_scroll: random::<f32>() > 0.5
CoinFlip(r) == r > Half

\* Individual::should_go_offline: the draw is commented out
should_go_offline == FALSE

\* Individual::proceed_to_scrolling
proceed_to_scrolling(self, pool, now) ==
    LET recommended_post_ids ==
            get_post_recommendations(pool, self.interest_profile,
                                     self.viewed_content, RecommendationCount, now)
    IN [self EXCEPT !.viewed_content = @ \o recommended_post_ids,
                    !.state = Scrolling(recommended_post_ids)]

RECURSIVE WalkPick(_, _, _)
\* the weighted walk: the first index at which random_value drops to <= 0
WalkPick(similarities, i, random_value) ==
    IF i > Len(similarities) THEN 0
    ELSE LET left == random_value - similarities[i]
         IN IF left <= 0 THEN i ELSE WalkPick(similarities, i + 1, left)

\* Individual::select_post_from_recommendations: None, Some(id), or a panic
\* when an id of the batch does not resolve (the unwrap of get_content_by_id)
select_post_from_recommendations(self, recommended_post_ids, pool, r_pick) ==
    IF recommended_post_ids = <<>> THEN None
    ELSE IF \E i \in DOMAIN recommended_post_ids :
                IndexOfId(pool, recommended_post_ids[i]) = 0
    THEN [kind |-> "Panic"]
    ELSE LET content(i) == pool[IndexOfId(pool, recommended_post_ids[i])]
             similarities == [i \in DOMAIN recommended_post_ids |->
                calculate_vector_similarity(
                    self.interest_profile.vector_representation,
                    content(i).interest_profile.vector_representation)]
             total_similarity == SumOver(similarities, DOMAIN similarities)
             hit == WalkPick(similarities, 1, (r_pick * total_similarity) \div Scale)
         IN Some(content(IF hit = 0 THEN Len(recommended_post_ids) ELSE hit).id)

\* Individual::update_interests_from_profile
update_interests_from_profile(self, interest_profile, ticks_spent, gain) ==
    [self EXCEPT !.interest_profile =
        update_interest_from_profile(@, interest_profile, gain \div (ticks_spent + 1))]

\* Individual::proceed_from_offline
proceed_from_offline(self, pool, d, now) ==
    IF d.r_offline < self.next_post_likelihood
    THEN Result(proceed_to_scrolling(self, pool, now), pool, None)
    ELSE Result([self EXCEPT !.state = Offline], pool, None)

\* Individual::proceed_from_scrolling
proceed_from_scrolling(self, pool, d, now) ==
    LET st == self.state
        picked == IF CoinFlip(d.r_select)
                  THEN select_post_from_recommendations(
                          self, st.recommended_post_ids, pool, d.r_pick)
                  ELSE None
        selected_post == pool[IndexOfId(pool, picked.value)]
        comment_ids ==
            LET found == get_comment_recommendations(pool, selected_post.id, <<>>,
                                                     RecommendationCount).value
            IN [i \in DOMAIN found |-> found[i].id]
        first_comment ==
            selected_post.comments[IndexOfId(selected_post.comments, comment_ids[1])]
    IN IF picked.kind = "Panic" THEN Panicked(self, pool)
       ELSE IF picked.kind = "Some" /\ CoinFlip(d.r_read_post)
       THEN Result([self EXCEPT !.state =
                ReadingPost(selected_post.id, selected_post.creator_id, 0,
                    calculate_required_ticks(selected_post.length, self.read_speed),
                    calculate_interest_gain(self.interest_profile,
                                            selected_post.interest_profile))],
              pool, None)
       ELSE IF picked.kind = "Some" /\ CoinFlip(d.r_read_comments)
               /\ comment_ids # <<>>
       THEN Result([self EXCEPT !.state =
                ReadingComments(selected_post.id, selected_post.creator_id,
                    comment_ids, 0, 0,
                    calculate_required_ticks(first_comment.length, self.read_speed),
                    calculate_interest_gain(self.interest_profile,
                                            first_comment.interest_profile))],
              pool, None)
       ELSE IF picked.kind = "Some" /\ CoinFlip(d.r_write_comment)
       THEN Result([self EXCEPT !.state =
                CreatingComment(selected_post.id, d.state_id, 0,
                    (MaxCommentLength * (Scale - self.create_speed)) \div Scale)],
              pool, None)
       ELSE IF should_go_offline
       THEN Result([self EXCEPT !.state = Offline], pool, None)
       ELSE Result(proceed_to_scrolling(self, pool, now), pool, None)

\* Individual::proceed_from_reading_post
proceed_from_reading_post(self, pool, d, now) ==
    LET st == self.state
        ticks_spent == st.ticks_spent + 1
        viewed == [self EXCEPT !.viewed_content = Append(@, st.post_id)]
    IN IF ticks_spent >= st.ticks_required \/ d.r_attention > self.attention_span
       THEN IF should_go_offline
            THEN Result([viewed EXCEPT !.state = Offline], pool, None)
            ELSE Result(proceed_to_scrolling(viewed, pool, now), pool, None)
       ELSE IF IndexOfId(pool, st.post_id) = 0
       THEN Panicked(self, pool)
       ELSE Result([update_interests_from_profile(self,
                        pool[IndexOfId(pool, st.post_id)].interest_profile,
                        ticks_spent, st.potential_interest_gain)
                    EXCEPT !.state = [st EXCEPT !.ticks_spent = ticks_spent]],
                   pool, None)

\* proceed_from_reading_comments going back to the post whether or not the
\* agent has viewed it
proceed_from_reading_comments_rereading(self, pool, d, now) ==
    LET st == self.state
        ticks_spent == st.ticks_spent + 1
        ids == st.current_comment_ids
        stay(a) == Result([a EXCEPT !.state = [st EXCEPT !.ticks_spent = ticks_spent]],
                          pool, None)
        post == pool[IndexOfId(pool, st.post_id)]
        current == IndexOfId(post.comments, ids[st.current_comment_index + 1])
        read == update_interests_from_profile(self,
                    post.comments[current].interest_profile,
                    ticks_spent, st.potential_interest_gain)
        next_index == st.current_comment_index + 1
        next == IndexOfId(post.comments, ids[next_index + 1])
    IN IF IndexOfId(pool, st.post_id) = 0 THEN stay(self)
       ELSE IF current = 0 THEN stay(self)
       ELSE IF ~(ticks_spent >= st.ticks_required
                 \/ d.r_attention > self.attention_span)
       THEN stay(read)
       ELSE IF CoinFlip(d.r_read_post)
       THEN Result([read EXCEPT !.state =
                ReadingPost(st.post_id, st.creator_id, 0,
                    calculate_required_ticks(post.length, self.read_speed),
                    calculate_interest_gain(read.interest_profile,
                                            post.interest_profile))],
              pool, None)
       ELSE IF CoinFlip(d.r_write_comment)
       THEN Result([read EXCEPT !.state =
                CreatingComment(st.post_id, d.state_id, 0,
                    (MaxCommentLength * (Scale - self.create_speed)) \div Scale)],
              pool, None)
       ELSE IF should_go_offline
       THEN Result([read EXCEPT !.state = Offline], pool, None)
       ELSE IF next_index < Len(ids) /\ next # 0
       THEN Result([read EXCEPT !.state =
                ReadingComments(st.post_id, st.creator_id, ids, next_index, 0,
                    calculate_required_ticks(post.comments[next].length,
                                             self.read_speed),
                    calculate_interest_gain(read.interest_profile,
                                            post.comments[next].interest_profile))],
              pool, None)
       ELSE IF CoinFlip(d.r_scroll)
       THEN Result(proceed_to_scrolling(read, pool, now), pool, None)
       ELSE stay(read)

\* Individual::proceed_from_reading_comments
proceed_from_reading_comments(self, pool, d, now) ==
    LET st == self.state
        ticks_spent == st.ticks_spent + 1
        ids == st.current_comment_ids
        stay(a) == Result([a EXCEPT !.state = [st EXCEPT !.ticks_spent = ticks_spent]],
                          pool, None)
        post == pool[IndexOfId(pool, st.post_id)]
        current == IndexOfId(post.comments, ids[st.current_comment_index + 1])
        read == update_interests_from_profile(self,
                    post.comments[current].interest_profile,
                    ticks_spent, st.potential_interest_gain)
        next_index == st.current_comment_index + 1
        next == IndexOfId(post.comments, ids[next_index + 1])
    IN IF IndexOfId(pool, st.post_id) = 0 THEN stay(self)
       ELSE IF current = 0 THEN stay(self)
       ELSE IF ~(ticks_spent >= st.ticks_required
                 \/ d.r_attention > self.attention_span)
       THEN stay(read)
       ELSE IF CoinFlip(d.r_read_post) /\ ~Contains(self.viewed_content, st.post_id)
       THEN Result([read EXCEPT !.state =
                ReadingPost(st.post_id, st.creator_id, 0,
                    calculate_required_ticks(post.length, self.read_speed),
                    calculate_interest_gain(read.interest_profile,
                                            post.interest_profile))],
              pool, None)
       ELSE IF CoinFlip(d.r_write_comment)
       THEN Result([read EXCEPT !.state =
                CreatingComment(st.post_id, d.state_id, 0,
                    (MaxCommentLength * (Scale - self.create_speed)) \div Scale)],
              pool, None)
       ELSE IF should_go_offline
       THEN Result([read EXCEPT !.state = Offline], pool, None)
       ELSE IF next_index < Len(ids) /\ next # 0
       THEN Result([read EXCEPT !.state =
                ReadingComments(st.post_id, st.creator_id, ids, next_index, 0,
                    calculate_required_ticks(post.comments[next].length,
                                             self.read_speed),
                    calculate_interest_gain(read.interest_profile,
                                            post.comments[next].interest_profile))],
              pool, None)
       ELSE IF CoinFlip(d.r_scroll)
       THEN Result(proceed_to_scrolling(read, pool, now), pool, None)
       ELSE stay(read)

\* Individual::proceed_from_creating_post: the post goes straight into the engine
proceed_from_creating_post(self, pool, d, now) ==
    LET st == self.state
        ticks_spent == st.ticks_spent + 1
        content == generate_content(self, d, now)
        created == [self EXCEPT !.created_content = Append(@, content.id)]
        grown == create_post(pool, content)
    IN IF ticks_spent >= st.ticks_required
       THEN IF d.tags = PanicTags THEN Panicked(self, pool)
            ELSE IF should_go_offline
            THEN Result([created EXCEPT !.state = Offline], grown, None)
            ELSE Result(proceed_to_scrolling(created, grown, now), grown, None)
       ELSE Result([self EXCEPT !.state = [st EXCEPT !.ticks_spent = ticks_spent]],
                   pool, None)

\* Individual::proceed_from_creating_comment: Comment::new gets comment_id as
\* its commentor_id argument; add_comment_to_post unwraps the post lookup
proceed_from_creating_comment(self, pool, d, now) ==
    LET st == self.state
        ticks_spent == st.ticks_spent + 1
        comment == Comment(d.content_id, st.comment_id, now, self.interest_profile,
                           RandomLength(d.r_length, MaxCommentLength))
        grown == add_comment_to_post(pool, st.post_id, comment)
    IN IF ticks_spent >= st.ticks_required
       THEN IF IndexOfId(pool, st.post_id) = 0 THEN Panicked(self, pool)
            ELSE IF should_go_offline
            THEN Result([self EXCEPT !.state = Offline], grown, None)
            ELSE Result(proceed_to_scrolling(self, grown, now), grown, None)
       ELSE Result([self EXCEPT !.state = [st EXCEPT !.ticks_spent = ticks_spent]],
                   pool, None)

\* Individual::tick
IndividualTick(self, pool, d, now) ==
    LET counted == [self EXCEPT !.session_length_ticks = @ + 1]
        kind == self.state.kind
    IN IF kind = "Offline" THEN proceed_from_offline(counted, pool, d, now)
       ELSE IF kind = "Scrolling" THEN proceed_from_scrolling(counted, pool, d, now)
       ELSE IF kind = "ReadingPost" THEN proceed_from_reading_post(counted, pool, d, now)
       ELSE IF kind = "CreatingPost" THEN proceed_from_creating_post(counted, pool, d, now)
       ELSE IF kind = "ReadingComments"
       THEN proceed_from_reading_comments(counted, pool, d, now)
       ELSE proceed_from_creating_comment(counted, pool, d, now)

----------------------------------------------------------------------------
(* Bot (models/agents/bot.rs) *)

\* start_creating_post counting the tick that published as the first tick of
\* the next creation
BotStartCreatingPost_counted(d) == CreatingPost(d.state_id, 1, BotCreationTicks)

\* Bot::start_creating_post
BotStartCreatingPost(d) == CreatingPost(d.state_id, 0, BotCreationTicks)

\* proceed_from_creating_post publishing a post on every tick of the creation
BotProceedFromCreatingPost_every_tick(self, pool, d, now) ==
    LET st == self.state
        new_ticks_spent == st.ticks_spent + 1
        content == generate_content(self, d, now)
    IN IF new_ticks_spent >= st.ticks_required
       THEN IF d.tags = PanicTags THEN Panicked(self, pool)
            ELSE Result([self EXCEPT !.created_content = Append(@, content.id),
                                     !.state = BotStartCreatingPost(d)],
                        create_post(pool, content), None)
       ELSE Result([self EXCEPT !.state = [st EXCEPT !.ticks_spent = new_ticks_spent]],
                   create_post(pool, content), None)

\* Bot::proceed_from_creating_post: the post goes straight into the engine
BotProceedFromCreatingPost(self, pool, d, now) ==
    LET st == self.state
        new_ticks_spent == st.ticks_spent + 1
        content == generate_content(self, d, now)
    IN IF new_ticks_spent >= st.ticks_required
       THEN IF d.tags = PanicTags THEN Panicked(self, pool)
            ELSE Result([self EXCEPT !.created_content = Append(@, content.id),
                                     !.state = BotStartCreatingPost(d)],
                        create_post(pool, content), None)
       ELSE Result([self EXCEPT !.state = [st EXCEPT !.ticks_spent = new_ticks_spent]],
                   pool, None)

\* Bot::tick
BotTick(self, pool, d, now) ==
    IF self.state.kind = "CreatingPost"
    THEN BotProceedFromCreatingPost(self, pool, d, now)
    ELSE Result([self EXCEPT !.state = BotStartCreatingPost(d)], pool, None)

----------------------------------------------------------------------------
(* Organisation (models/agents/organisation.rs) *)

OrgTicksFactor == 30       \* (random::<f32>() * 30.0) as i32

\* Organisation::calculate_post_ticks
calculate_post_ticks(r) == (r * OrgTicksFactor) \div Scale

\* Organisation::start_creating_post
OrgStartCreatingPost(d) == CreatingPost(d.state_id, 0, calculate_post_ticks(d.r_ticks))

\* Organisation::proceed_from_creating_post: the post is returned to the driver
OrgProceedFromCreatingPost(self, pool, d, now) ==
    LET st == self.state
        new_ticks_spent == st.ticks_spent + 1
        content == generate_content(self, d, now)
    IN IF new_ticks_spent >= st.ticks_required
       THEN IF d.tags = PanicTags THEN Panicked(self, pool)
            ELSE Result([self EXCEPT !.created_content = Append(@, content.id),
                                     !.state = OrgStartCreatingPost(d)],
                        pool, Some(content))
       ELSE Result([self EXCEPT !.state = [st EXCEPT !.ticks_spent = new_ticks_spent]],
                   pool, None)

\* Organisation::tick
OrganisationTick(self, pool, d, now) ==
    IF self.state.kind = "CreatingPost"
    THEN OrgProceedFromCreatingPost(self, pool, d, now)
    ELSE Result([self EXCEPT !.state = OrgStartCreatingPost(d)], pool, None)

----------------------------------------------------------------------------
(* Agent::tick, dispatched on the agent's role *)

AgentTick(self, pool, d, now) ==
    IF self.type = "Individual" THEN IndividualTick(self, pool, d, now)
    ELSE IF self.type = "Bot" THEN BotTick(self, pool, d, now)
    ELSE OrganisationTick(self, pool, d, now)

OrgTickDraws == {70}           \* a draw that makes calculate_post_ticks 2
LengthDraws == {750}           \* the draw behind a new item's length
StateIds == {1}                \* next_u32() draws for a state's post_id, comment_id

\* the draws a creation that completes on this tick makes
ContentDraws(self, ticks) ==
    {[NoDraw EXCEPT !.content_id = c, !.state_id = i, !.r_length = l,
                    !.tags = t, !.r_ticks = k] :
        c \in Ids, i \in StateIds, l \in LengthDraws, k \in ticks,
        t \in select_content_tags(self.interest_profile,
                                  MinContentTags, MaxContentTags)}

\* the random source as far as this agent's next tick reads it
DrawsFor(self) ==
    LET st == self.state
        completes == st.ticks_spent + 1 >= st.ticks_required
    IN IF self.type = "Bot"
       THEN IF completes THEN ContentDraws(self, {0}) ELSE {NoDraw}
       ELSE IF self.type = "Organisation"
       THEN IF completes THEN ContentDraws(self, OrgTickDraws) ELSE {NoDraw}
       ELSE IF st.kind = "Offline"
       THEN {[NoDraw EXCEPT !.r_offline = r] : r \in Draws}
       ELSE IF st.kind = "Scrolling"
       THEN {[NoDraw EXCEPT !.r_select = a] : a \in {r \in Draws : ~CoinFlip(r)}}
            \cup {[NoDraw EXCEPT !.r_select = a, !.r_pick = b, !.r_read_post = c] :
                    a \in {r \in Draws : CoinFlip(r)}, b \in Draws,
                    c \in {r \in Draws : CoinFlip(r)}}
            \cup {[NoDraw EXCEPT !.r_select = a, !.r_pick = b, !.r_read_post = c,
                                 !.r_read_comments = e, !.r_write_comment = f,
                                 !.state_id = i] :
                    a \in {r \in Draws : CoinFlip(r)}, b \in Draws,
                    c \in {r \in Draws : ~CoinFlip(r)}, e \in Draws, f \in Draws,
                    i \in StateIds}
       ELSE IF st.kind = "ReadingPost"
       THEN {[NoDraw EXCEPT !.r_attention = r] : r \in Draws}
       ELSE IF st.kind = "ReadingComments"
       THEN {[NoDraw EXCEPT !.r_attention = a, !.r_read_post = c,
                            !.r_write_comment = f, !.r_scroll = g, !.state_id = i] :
                a \in Draws, c \in Draws, f \in Draws, g \in Draws,
                i \in StateIds}
       ELSE IF st.kind = "CreatingPost"
       THEN IF completes THEN ContentDraws(self, {0}) ELSE {NoDraw}
       ELSE IF completes
            THEN {[NoDraw EXCEPT !.content_id = c, !.r_length = l] :
                    c \in Ids, l \in LengthDraws}
            ELSE {NoDraw}

----------------------------------------------------------------------------
(* Agent construction (Individual::new, Bot::new, Organisation::new) *)

NextPostLikelihoods == {0, 500}
AttentionSpans == {0}           \* random::<f32>().min(0.5)
ReadSpeeds == {0}
CreateSpeeds == {500}
Agreements == {500}
BotTagSets == {{"politics"}}

\* Individual::new: an empty interest profile, Offline
NewIndividual(id, likelihood, attention, read_speed, create_speed) ==
    [type |-> "Individual", id |-> id,
     content_creation_frequency |-> 300, created_content |-> <<>>,
     create_speed |-> create_speed, state |-> Offline,
     interest_profile |-> NewProfile,
     next_post_likelihood |-> likelihood, attention_span |-> attention,
     viewed_content |-> <<>>, read_speed |-> read_speed,
     session_length_ticks |-> 0]

\* the starting profile of a Bot or Organisation: weight 1.0 per tag, normalised
StartingProfile(tags, agreement) ==
    normalise_weights(ProfileOf([t \in tags |-> Topic(Scale, agreement)]))

\* Bot::new
NewBot(id, tags, agreement, post_id) ==
    [type |-> "Bot", id |-> id,
     content_creation_frequency |-> Scale, created_content |-> <<>>,
     create_speed |-> Scale,
     state |-> CreatingPost(post_id, 0, BotCreationTicks),
     interest_profile |-> StartingProfile(tags, agreement)]

\* Organisation::new
NewOrganisation(id, tag, agreement, post_id, r_ticks) ==
    [type |-> "Organisation", id |-> id,
     content_creation_frequency |-> Scale, created_content |-> <<>>,
     create_speed |-> Scale,
     state |-> CreatingPost(post_id, 0, calculate_post_ticks(r_ticks)),
     interest_profile |-> StartingProfile({tag}, agreement)]

----------------------------------------------------------------------------
(* Simulation (models/simulation.rs) and the engine's entry points *)

OrgAgreements == {850}          \* 0.7 + random * 0.3
MaxApiCalls == 1                \* calls of outside callers to the engine

Idle == [kind |-> "Idle"]
Running == "running"

\* the typestate and order-check variables while the Simulation runs
OthersIdle ==
    /\ w_agent = Idle /\ w_engine = <<>> /\ w_result = Idle
    /\ o_agents = <<>> /\ o_pool = <<>> /\ p_agents = <<>> /\ p_pool = <<>>
    /\ o_perm = <<>>
    /\ e_pool = <<>> /\ e_result = Idle
    /\ f_profile = <<>> /\ f_result = Idle

\* Simulation::new with one agent of each role: ids 0, 1, 2 in list order
SimulationNew ==
    {<<NewIndividual(0, l, a, rs, cs),
       NewBot(1, tags, ag, bp),
       NewOrganisation(2, tag, oag, op, r)>> :
        l \in NextPostLikelihoods, a \in AttentionSpans, rs \in ReadSpeeds,
        cs \in CreateSpeeds, tags \in BotTagSets, ag \in Agreements,
        bp \in {1}, tag \in {"technology"}, oag \in OrgAgreements, op \in {1},
        r \in OrgTickDraws}

Init ==
    /\ agents \in SimulationNew
    /\ content_pool = <<>>
    /\ clock = 0
    /\ last_tick = 0
    /\ tick_idx = 0
    /\ new_content = <<>>
    /\ tick_start_pool = <<>>
    /\ aborted = Running
    /\ api_calls = 0
    /\ OthersIdle

PoolWithinBounds(pool) ==
    /\ Len(pool) <= MaxPool
    /\ \A i \in DOMAIN pool : Len(pool[i].comments) <= MaxComments

\* time passes; the application calls Simulation::tick on every frame, so a
\* tick that is due runs before more time passes
Advance ==
    /\ aborted = Running /\ tick_idx = 0
    /\ clock < MaxTicks
    /\ clock - last_tick < TickRate
    /\ clock' = clock + 1
    /\ UNCHANGED <<agents, content_pool, last_tick, tick_idx, new_content,
                   tick_start_pool, aborted, api_calls>>
    /\ UNCHANGED <<wVars, oVars, eVars, fVars>>

\* Simulation::tick entering its loop on every call, whatever time has elapsed
BeginTick_every_frame ==
    /\ aborted = Running /\ tick_idx = 0
    /\ last_tick' = clock
    /\ tick_idx' = 1
    /\ new_content' = <<>>
    /\ tick_start_pool' = content_pool
    /\ UNCHANGED <<agents, content_pool, clock, aborted, api_calls>>
    /\ UNCHANGED <<wVars, oVars, eVars, fVars>>

\* Simulation::tick up to its loop: nothing happens before tick_rate_ms elapsed
BeginTick ==
    /\ aborted = Running /\ tick_idx = 0
    /\ clock - last_tick >= TickRate
    /\ last_tick' = clock
    /\ tick_idx' = 1
    /\ new_content' = <<>>
    /\ tick_start_pool' = content_pool
    /\ UNCHANGED <<agents, content_pool, clock, aborted, api_calls>>
    /\ UNCHANGED <<wVars, oVars, eVars, fVars>>

\* one iteration of the loop: agent.tick(&self.engine, &self.config)
TickAgent ==
    /\ aborted = Running /\ tick_idx \in DOMAIN agents
    /\ \E d \in DrawsFor(agents[tick_idx]) :
         LET r == AgentTick(agents[tick_idx], content_pool, d, clock)
         IN IF r.panic
            THEN /\ aborted' = "Agent::tick"
                 /\ UNCHANGED <<agents, content_pool, tick_idx, new_content>>
            ELSE /\ PoolWithinBounds(r.pool)
                 /\ Len(r.pool) + Len(new_content) < MaxPool + 1
                 /\ agents' = [agents EXCEPT ![tick_idx] = r.agent]
                 /\ content_pool' = r.pool
                 /\ new_content' = IF r.out.kind = "Some"
                                   THEN Append(new_content, r.out.value)
                                   ELSE new_content
                 /\ tick_idx' = tick_idx + 1
                 /\ UNCHANGED aborted
    /\ UNCHANGED <<clock, last_tick, tick_start_pool, api_calls>>
    /\ UNCHANGED <<wVars, oVars, eVars, fVars>>

\* after the loop: self.engine.content_pool.extend(new_content)
Merge ==
    /\ aborted = Running /\ tick_idx = Len(agents) + 1
    /\ content_pool' = content_pool \o new_content
    /\ new_content' = <<>>
    /\ tick_idx' = 0
    /\ UNCHANGED <<agents, clock, last_tick, tick_start_pool, aborted, api_calls>>
    /\ UNCHANGED <<wVars, oVars, eVars, fVars>>

\* a caller's engine.create_post(post)
CallCreatePost ==
    /\ aborted = Running /\ tick_idx = 0
    /\ api_calls < MaxApiCalls
    /\ api_calls' = api_calls + 1
    /\ Len(content_pool) < MaxPool
    /\ \E id \in StateIds :
         content_pool' = create_post(content_pool, Post(id, 0, clock, NewProfile, 2))
    /\ UNCHANGED <<agents, clock, last_tick, tick_idx, new_content,
                   tick_start_pool, aborted>>
    /\ UNCHANGED <<wVars, oVars, eVars, fVars>>

\* a caller's engine.add_comment_to_post(post_id, comment): the lookup is unwrapped
AddCommentToPostCall(post_id, comment) ==
    /\ aborted = Running /\ tick_idx = 0
    /\ api_calls < MaxApiCalls
    /\ api_calls' = api_calls + 1
    /\ IF IndexOfId(content_pool, post_id) = 0
       THEN aborted' = "add_comment_to_post" /\ UNCHANGED content_pool
       ELSE /\ Len(content_pool[IndexOfId(content_pool, post_id)].comments)
                  < MaxComments
            /\ content_pool' = add_comment_to_post(content_pool, post_id, comment)
            /\ UNCHANGED aborted
    /\ UNCHANGED <<agents, clock, last_tick, tick_idx, new_content, tick_start_pool>>
    /\ UNCHANGED <<wVars, oVars, eVars, fVars>>

CallAddCommentToPost ==
    \E post_id \in Ids, id \in StateIds :
        AddCommentToPostCall(post_id, Comment(id, 0, clock, NewProfile, 1))

\* a caller's engine.increase_engagement_score(content_id): the lookup is unwrapped
IncreaseEngagementScoreCall(content_id) ==
    /\ aborted = Running /\ tick_idx = 0
    /\ api_calls < MaxApiCalls
    /\ api_calls' = api_calls + 1
    /\ IF IndexOfId(content_pool, content_id) = 0
       THEN aborted' = "increase_engagement_score" /\ UNCHANGED content_pool
       ELSE /\ content_pool' = increase_engagement_score(content_pool, content_id)
            /\ UNCHANGED aborted
    /\ UNCHANGED <<agents, clock, last_tick, tick_idx, new_content, tick_start_pool>>
    /\ UNCHANGED <<wVars, oVars, eVars, fVars>>

CallIncreaseEngagementScore ==
    \E content_id \in Ids : IncreaseEngagementScoreCall(content_id)

Next ==
    \/ Advance
    \/ BeginTick
    \/ TickAgent
    \/ Merge
    \/ CallCreatePost
    \/ CallAddCommentToPost
    \/ CallIncreaseEngagementScore

Spec == Init /\ [][Next]_vars

----------------------------------------------------------------------------
(* Properties of the Simulation and of the engine's entry points *)

\* C1: within one Simulation tick every agent's tick is handed the content
\* pool exactly as it was when the tick began: nothing an agent produced in
\* the tick is in the pool an agent advanced later in the same tick sees
\* (the pool changes only in the merge after the last agent).
C1_TickSeesStartPool ==
    tick_idx \in DOMAIN agents => content_pool = tick_start_pool

\* a post of the old pool, as it may look later: the same post, with every
\* comment it had still attached
PostKept(old, new) ==
    /\ new.id = old.id /\ new.creator_id = old.creator_id
    /\ new.timestamp = old.timestamp /\ new.length = old.length
    /\ new.interest_profile = old.interest_profile
    /\ \A k \in DOMAIN old.comments :
         \E m \in DOMAIN new.comments : new.comments[m] = old.comments[k]

\* every post of old is in new, in the same relative order
PoolKept(old, new) ==
    \E f \in [DOMAIN old -> DOMAIN new] :
        /\ \A i, j \in DOMAIN old : i < j => f[i] < f[j]
        /\ \A i \in DOMAIN old : PostKept(old[i], new[f[i]])

\* C6: the content pool only grows.  Across every step (create_post,
\* add_comment_to_post, increase_engagement_score, the steps of a Simulation
\* tick) every post that was in the pool is still in it, in the same relative
\* order, and every comment attached to a post is still attached to it.
C6_PoolOnlyGrows ==
    [][PoolKept(content_pool, content_pool')]_vars

\* C6 witness: a pool of at least two posts, one of them made by an agent's
\* tick, one of them with a comment on it.
C6_Witness ==
    /\ Len(content_pool) >= 2
    /\ \E i \in DOMAIN content_pool : content_pool[i].comments # <<>>
    /\ \E i \in DOMAIN content_pool : content_pool[i].creator_id # 0

\* a step of Simulation::tick, as opposed to a caller's use of the engine
StepOfTick == api_calls' = api_calls

\* C32: Simulation::tick advances the agents only when at least tick_rate_ms
\* has elapsed since last_tick, and then every agent of the list is ticked
\* exactly once, in list order, before the merge; when less time has elapsed,
\* the agent states, the content pool and last_tick are left unchanged.
C32_TickOnlyWhenDueAndForEveryAgent ==
    [][/\ (tick_idx = 0 /\ tick_idx' # 0) =>
            clock - last_tick >= TickRate /\ last_tick' = clock /\ tick_idx' = 1
       /\ (tick_idx = 0 /\ clock - last_tick < TickRate /\ StepOfTick) =>
            UNCHANGED <<agents, content_pool, last_tick>>
       /\ agents' # agents =>
            /\ tick_idx \in DOMAIN agents /\ tick_idx' = tick_idx + 1
            /\ DOMAIN agents' = DOMAIN agents
            /\ \A j \in DOMAIN agents : j # tick_idx => agents'[j] = agents[j]
       /\ (tick_idx \in DOMAIN agents /\ tick_idx' # tick_idx) =>
            tick_idx' = tick_idx + 1
       /\ (tick_idx' = 0 /\ tick_idx # 0) =>
            /\ tick_idx = Len(agents) + 1
            /\ content_pool' = content_pool \o new_content
       /\ last_tick' # last_tick => tick_idx = 0 /\ tick_idx' = 1]_vars

\* C32 witness: the second tick of the run, all three agents ticked and the
\* merge about to happen with a post an agent returned.
C32_Witness ==
    /\ tick_idx = Len(agents) + 1
    /\ Len(agents) = 3
    /\ clock >= 2 * TickRate /\ last_tick = clock
    /\ new_content # <<>>

\* the enum Individual of the Simulation: every tick that ends in Scrolling
\* fetched a batch, and no id of it had been in viewed_content
IndividualBatchesFresh ==
    [][(agents' # agents /\ tick_idx = 1 /\ agents'[1].state.kind = "Scrolling") =>
          /\ \A j \in DOMAIN agents'[1].state.recommended_post_ids :
                ~Contains(agents[1].viewed_content,
                          agents'[1].state.recommended_post_ids[j])
          /\ \A j \in DOMAIN agents'[1].state.recommended_post_ids :
                Contains(agents'[1].viewed_content,
                         agents'[1].state.recommended_post_ids[j])]_vars

\* C7: increase_engagement_score(id) with an id no pooled post has signals
\* not-found and leaves the whole pool unchanged instead of aborting; with an
\* existing id it raises that post's engagement_score by exactly one unit
\* (1.0) and changes nothing else.
C7_IncreaseEngagementScoreNeverAborts ==
    [][\A content_id \in Ids :
          IncreaseEngagementScoreCall(content_id) =>
            IF IndexOfId(content_pool, content_id) = 0
            THEN aborted' = Running /\ content_pool' = content_pool
            ELSE /\ aborted' = Running
                 /\ content_pool' =
                      [content_pool EXCEPT
                         ![IndexOfId(content_pool, content_id)].engagement_score
                            = @ + Scale]]_vars

\* C8: add_comment_to_post(post_id, comment) with a post_id no pooled post has
\* fails with a not-found outcome and leaves the pool unchanged instead of
\* aborting; with an existing post_id it appends the comment at the end of
\* that post's comments and changes no other post.
C8_AddCommentToPostNeverAborts ==
    [][\A post_id \in Ids, id \in StateIds :
          AddCommentToPostCall(post_id, Comment(id, 0, clock, NewProfile, 1)) =>
            IF IndexOfId(content_pool, post_id) = 0
            THEN aborted' = Running /\ content_pool' = content_pool
            ELSE /\ aborted' = Running
                 /\ content_pool' =
                      [content_pool EXCEPT
                         ![IndexOfId(content_pool, post_id)].comments =
                            Append(@, Comment(id, 0, clock, NewProfile, 1))]]_vars

\* a post as generate_content leaves it, made by the agent with this id
FreshPostOf(post, id) ==
    /\ post.creator_id = id
    /\ post.engagement_score = 0
    /\ post.comments = <<>>
    /\ post.readers = <<>>

\* C12: an agent in CreatingPost adds exactly one new post, with creator_id
\* its own id, engagement_score 0 and no comments or readers, on the tick in
\* which ticks_spent reaches ticks_required (into the engine, or into the
\* batch the driver merges at the end of the tick), and adds no post on an
\* earlier tick of that creation.
C12_CreatingPostEmitsOnePost ==
    [][(/\ tick_idx \in DOMAIN agents
        /\ agents[tick_idx].state.kind = "CreatingPost"
        /\ tick_idx' = tick_idx + 1) =>
          LET self == agents[tick_idx] IN
          IF self.state.ticks_spent + 1 >= self.state.ticks_required
          THEN \/ /\ Len(content_pool') = Len(content_pool) + 1
                  /\ SubSeq(content_pool', 1, Len(content_pool)) = content_pool
                  /\ FreshPostOf(content_pool'[Len(content_pool')], self.id)
                  /\ new_content' = new_content
               \/ /\ Len(new_content') = Len(new_content) + 1
                  /\ SubSeq(new_content', 1, Len(new_content)) = new_content
                  /\ FreshPostOf(new_content'[Len(new_content')], self.id)
                  /\ content_pool' = content_pool
          ELSE content_pool' = content_pool /\ new_content' = new_content]_vars

\* C12 witness: after a merge the pool holds a post of the Bot (agent 1) and a
\* post of the Organisation (agent 2), each recorded in its created_content.
C12_Witness ==
    /\ tick_idx = 0 /\ Len(agents) = 3
    /\ \E i \in DOMAIN content_pool : content_pool[i].creator_id = 1
    /\ \E i \in DOMAIN content_pool : content_pool[i].creator_id = 2
    /\ agents[2].created_content # <<>>
    /\ agents[3].created_content # <<>>

\* C16: the ids of the posts in the content pool are pairwise distinct in
\* every reachable state, for any number of agents creating content over any
\* number of ticks.
C16_PostIdsDistinct ==
    \A i, j \in DOMAIN content_pool :
        i # j => content_pool[i].id # content_pool[j].id

\* id, creator_id, timestamp, interest_profile and length are the same; of
\* the rest, the post is as it was, or its engagement_score grew by 1.0 as
\* increase_engagement_score leaves it, or one comment was pushed as
\* add_comment_to_post leaves it
PostTouchedByEntryPoint(before, after) ==
    /\ after.id = before.id
    /\ after.creator_id = before.creator_id
    /\ after.timestamp = before.timestamp
    /\ after.interest_profile = before.interest_profile
    /\ after.length = before.length
    /\ \/ after = before
       \/ after = [before EXCEPT !.engagement_score = @ + Scale]
       \/ /\ Len(after.comments) = Len(before.comments) + 1
          /\ after = [before EXCEPT
                        !.comments = Append(@, after.comments[Len(after.comments)])]

\* C27: once a post is in the pool, its id, creator_id, timestamp,
\* interest_profile and length never change under any engine operation or
\* tick; only engagement_score, comments and readers change, and only as
\* increase_engagement_score and add_comment_to_post change them.
C27_PooledPostFieldsFrozen ==
    [][/\ Len(content_pool') >= Len(content_pool)
       /\ \A k \in DOMAIN content_pool :
            PostTouchedByEntryPoint(content_pool[k], content_pool'[k])]_vars

\* C27 witness: a post the Bot created has had its engagement increased, and
\* a later tick is running over the pool that holds it.
C27_Witness ==
    /\ tick_idx > 0
    /\ \E k \in DOMAIN tick_start_pool :
         /\ tick_start_pool[k].creator_id = 1
         /\ tick_start_pool[k].engagement_score = Scale
         /\ k \in DOMAIN content_pool
         /\ content_pool[k] = tick_start_pool[k]

----------------------------------------------------------------------------
(* The engine's queries, asked of every small pool *)

\* age and engagement of the pooled posts: just created and unengaged, or an
\* hour old with its score raised
EngineAges ==
    {[timestamp |-> 1, engagement_score |-> 0],
     [timestamp |-> 0, engagement_score |-> Scale]}

\* the posts an engine can hold: made by create_post, their score raised by
\* increase_engagement_score
EnginePosts ==
    {[Post(id, 0, a.timestamp, NewProfile, 2)
        EXCEPT !.engagement_score = a.engagement_score] :
        id \in Ids, a \in EngineAges}

\* every pool of at most MaxPool such posts
EnginePools ==
    UNION {[1..n -> EnginePosts] : n \in 0..MaxPool}

\* the viewed_posts lists a caller passes: ids pooled or not, in ascending
\* order (the engine asks a list only whether it contains an id)
ViewedLists ==
    UNION {{q \in DistinctSeqs(Ids, k) : \A i \in 1..(k - 1) : q[i] < q[i + 1]} :
           k \in 0..MaxId}

\* the viewers' profiles: a new agent's, a Bot's
ViewerProfiles == {NewProfile, StartingProfile({"politics"}, 500)}

\* the comments a post can hold, whatever their engagement_score
EngineComments ==
    {[Comment(id, 0, 0, NewProfile, 1) EXCEPT !.engagement_score = e] :
        id \in {1, 2}, e \in {0, Scale}}

\* pools of a post 1 with up to MaxComments + 1 such comments, and a post 2 with
\* a comment of its own
CommentedPools ==
    {<<[Post(1, 0, 0, NewProfile, 2) EXCEPT !.comments = comments],
       [Post(2, 0, 0, NewProfile, 2) EXCEPT
          !.comments = <<Comment(1, 2, 0, NewProfile, 1)>>]>> :
        comments \in UNION {[1..n -> EngineComments] : n \in 0..(MaxComments + 1)}}

InitEngine ==
    /\ e_pool \in EnginePools \cup CommentedPools
    /\ e_result = Idle
    /\ agents = <<>> /\ content_pool = <<>> /\ clock = 0 /\ last_tick = 0
    /\ tick_idx = 0 /\ new_content = <<>> /\ tick_start_pool = <<>>
    /\ aborted = Running /\ api_calls = 0
    /\ w_agent = Idle /\ w_engine = <<>> /\ w_result = Idle
    /\ o_agents = <<>> /\ o_pool = <<>> /\ p_agents = <<>> /\ p_pool = <<>>
    /\ o_perm = <<>>
    /\ f_profile = <<>> /\ f_result = Idle

\* a caller's engine.get_post_recommendations(profile, viewed_posts, count, now);
\* the function reads the engine and changes nothing, so one query per engine
\* covers every query
QueryPostRecommendations ==
    /\ e_result = Idle
    /\ \E profile \in ViewerProfiles, viewed_posts \in ViewedLists,
          count \in 0..(MaxPool + 1) :
         e_result' = [kind |-> "get_post_recommendations",
                      interest_profile |-> profile,
                      viewed_posts |-> viewed_posts, count |-> count,
                      ids |-> get_post_recommendations(e_pool, profile,
                                  viewed_posts, count, 1)]
    /\ UNCHANGED <<e_pool, simVars, wVars, oVars, fVars>>

\* the ids of the comments the pool holds, on whatever post
PooledCommentIds ==
    UNION {{e_pool[k].comments[c].id : c \in DOMAIN e_pool[k].comments} :
           k \in DOMAIN e_pool}

\* a caller's engine.get_comment_recommendations(post_id, current_comment_ids,
\* count); current_comment_ids are ids of comments the caller has read
QueryCommentRecommendations ==
    /\ e_result = Idle
    /\ \E post_id \in Ids,
          current_comment_ids \in {q \in ViewedLists :
                                      Range(q) \subseteq PooledCommentIds},
          count \in 0..(MaxComments + 1) :
         e_result' = [kind |-> "get_comment_recommendations",
                      post_id |-> post_id,
                      current_comment_ids |-> current_comment_ids,
                      count |-> count,
                      found |-> get_comment_recommendations(e_pool, post_id,
                                    current_comment_ids, count)]
    /\ UNCHANGED <<e_pool, simVars, wVars, oVars, fVars>>

MaxEngagements == 4    \* a scored post has had at most this many increase_engagement calls

\* the vector with 1.0 at index k and 0.0 elsewhere
UnitVector(k) == [i \in 0..(VecDim - 1) |-> IF i = k THEN Scale ELSE 0]

\* a profile with this vector_representation
VectorProfile(vector) == [NewProfile EXCEPT !.vector_representation = vector]

RECURSIVE Engaged(_, _)
\* the post after n calls of increase_engagement
Engaged(post, n) ==
    IF n = 0 THEN post ELSE Engaged(increase_engagement(post), n - 1)

\* a caller's engine.calculate_content_score for two posts of one timestamp
\* and one engagement_score, the vector of the first the viewer's own, the
\* vector of the second orthogonal to it
ScoreSimilarAndDissimilar ==
    /\ e_result = Idle
    /\ \E timestamp \in 0..1, times \in 0..MaxEngagements :
         \E viewer \in {VectorProfile(UnitVector(0))},
            similar \in {Engaged(Post(1, 0, timestamp,
                                      VectorProfile(UnitVector(0)), 2), times)},
            dissimilar \in {Engaged(Post(2, 0, timestamp,
                                         VectorProfile(UnitVector(1)), 2), times)} :
           e_result' =
             [kind |-> "calculate_content_score",
              timestamp |-> timestamp,
              engagement_score |-> similar.engagement_score,
              similarities |->
                <<calculate_vector_similarity(viewer.vector_representation,
                      similar.interest_profile.vector_representation),
                  calculate_vector_similarity(viewer.vector_representation,
                      dissimilar.interest_profile.vector_representation)>>,
              scores |-> <<calculate_content_score(similar, viewer, 1),
                           calculate_content_score(dissimilar, viewer, 1)>>]
    /\ UNCHANGED <<e_pool, simVars, wVars, oVars, fVars>>

\* the configs a caller can give an engine (config is a pub field): the
\* default one, weights that sum to 3.0, a weight above 1.0, all zero, and a
\* negative weight
ScoringConfigs ==
    {DefaultConfig,
     [interest_weight |-> Scale, recency_weight |-> Scale, engagement_weight |-> Scale],
     [interest_weight |-> 2 * Scale, recency_weight |-> 300, engagement_weight |-> 200],
     [interest_weight |-> 0, recency_weight |-> 0, engagement_weight |-> 0],
     [interest_weight |-> 500, recency_weight |-> 300, engagement_weight |-> -200]}

\* the vectors of the scored posts: the viewer's, one orthogonal to it, zero
ScoredVectors == {UnitVector(0), UnitVector(1), ZeroVector}

\* a caller's engine.calculate_content_score(&post, &viewer, 1) on an engine
\* with one of these configs; the post was made at 0, 1 or 2 and engaged with
\* up to MaxEngagements times
ScoreWithConfig ==
    /\ e_result = Idle
    /\ \E config \in ScoringConfigs, timestamp \in 0..2,
          times \in 0..MaxEngagements, vector \in ScoredVectors :
         \E post \in {Engaged(Post(1, 0, timestamp, VectorProfile(vector), 2),
                               times)} :
           e_result' = [kind |-> "content score", config |-> config, post |-> post,
                        score |-> content_score(config, post,
                                      VectorProfile(UnitVector(0)), 1)]
    /\ UNCHANGED <<e_pool, simVars, wVars, oVars, fVars>>

\* an engine with an empty pool, whose scoring function callers use
InitScore ==
    /\ e_pool = <<>>
    /\ e_result = Idle
    /\ agents = <<>> /\ content_pool = <<>> /\ clock = 0 /\ last_tick = 0
    /\ tick_idx = 0 /\ new_content = <<>> /\ tick_start_pool = <<>>
    /\ aborted = Running /\ api_calls = 0
    /\ w_agent = Idle /\ w_engine = <<>> /\ w_result = Idle
    /\ o_agents = <<>> /\ o_pool = <<>> /\ p_agents = <<>> /\ p_pool = <<>>
    /\ o_perm = <<>>
    /\ f_profile = <<>> /\ f_result = Idle

NextScore == ScoreWithConfig \/ ScoreSimilarAndDissimilar

SpecScore == InitScore /\ [][NextScore]_vars

C35_EngagementScoreWithinUnitInterval ==
    e_result.kind = "content score" =>
        e_result.post.engagement_score >= 0
        /\ e_result.post.engagement_score <= Scale

NextEngine ==
    \/ QueryPostRecommendations
    \/ QueryCommentRecommendations
    \/ ScoreSimilarAndDissimilar

SpecEngine == InitEngine /\ [][NextEngine]_vars

\* C5: for every pool, viewer profile, excluded-ID list and count,
\* get_post_recommendations returns at most count ids, none of them in the
\* excluded list, each of them the id of a post that is in the pool.
C5_RecommendationsWithinBounds ==
    e_result.kind = "get_post_recommendations" =>
        /\ Len(e_result.ids) <= e_result.count
        /\ \A i \in DOMAIN e_result.ids :
             /\ ~Contains(e_result.viewed_posts, e_result.ids[i])
             /\ \E j \in DOMAIN e_pool : e_pool[j].id = e_result.ids[i]

\* C5 witness: a query that excluded a pooled post, asked for fewer ids than
\* were left, and got as many as it asked for.
C5_Witness ==
    /\ e_result.kind = "get_post_recommendations"
    /\ \E j \in DOMAIN e_pool : Contains(e_result.viewed_posts, e_pool[j].id)
    /\ e_result.count >= 1
    /\ Len(e_result.ids) = e_result.count
    /\ Len(NotViewed(e_pool, e_result.viewed_posts)) > e_result.count

\* the pooled posts the last query did not exclude, in pool order
QueryCandidates == NotViewed(e_pool, e_result.viewed_posts)

\* the score the last query gave a post
QueryScore(post) == calculate_content_score(post, e_result.interest_profile, 1)

\* C17: get_post_recommendations returns the non-excluded posts in
\* non-increasing order of calculate_content_score, and every non-excluded
\* post it leaves out has a score no higher than every post it returns: the
\* result is the top `count` of the candidates.
C17_RecommendationsAreTopCount ==
    e_result.kind = "get_post_recommendations" =>
        /\ Len(e_result.ids) = Min(e_result.count, Len(QueryCandidates))
        /\ \E at \in DistinctSeqs(DOMAIN QueryCandidates, Len(e_result.ids)) :
             /\ \A i \in DOMAIN at : QueryCandidates[at[i]].id = e_result.ids[i]
             /\ \A i, j \in DOMAIN at :
                  i < j => QueryScore(QueryCandidates[at[i]])
                             >= QueryScore(QueryCandidates[at[j]])
             /\ \A k \in DOMAIN QueryCandidates \ Range(at) :
                  \A i \in DOMAIN at :
                     QueryScore(QueryCandidates[k])
                        <= QueryScore(QueryCandidates[at[i]])

\* C17 witness: a query that returned at least two ids, left a candidate
\* out, and returned something other than the first candidates in pool order.
C17_Witness ==
    /\ e_result.kind = "get_post_recommendations"
    /\ Len(e_result.ids) >= 2
    /\ Len(QueryCandidates) > Len(e_result.ids)
    /\ \E i \in DOMAIN e_result.ids : e_result.ids[i] # QueryCandidates[i].id
    /\ \E i, j \in DOMAIN QueryCandidates :
         QueryScore(QueryCandidates[i]) # QueryScore(QueryCandidates[j])

\* the post the last comment query was about (the first with that id)
QueriedPost == e_pool[IndexOfId(e_pool, e_result.post_id)]

\* C18: get_comment_recommendations(post_id, excluded, count) returns absence
\* when no pooled post has post_id; otherwise it returns at most count
\* comments, all belonging to that post, none with an excluded id, in
\* non-increasing order of engagement_score.
C18_CommentRecommendations ==
    e_result.kind = "get_comment_recommendations" =>
        IF IndexOfId(e_pool, e_result.post_id) = 0
        THEN e_result.found = None
        ELSE /\ e_result.found.kind = "Some"
             /\ Len(e_result.found.value) <= e_result.count
             /\ \A i \in DOMAIN e_result.found.value :
                  /\ \E k \in DOMAIN QueriedPost.comments :
                       QueriedPost.comments[k] = e_result.found.value[i]
                  /\ ~Contains(e_result.current_comment_ids,
                               e_result.found.value[i].id)
             /\ \A i, j \in DOMAIN e_result.found.value :
                  i < j => e_result.found.value[i].engagement_score
                             >= e_result.found.value[j].engagement_score

\* C18 witness: a query about a post with an excluded comment that returned
\* two comments of different engagement, the later comment of the post first.
C18_Witness ==
    /\ e_result.kind = "get_comment_recommendations"
    /\ IndexOfId(e_pool, e_result.post_id) # 0
    /\ \E k \in DOMAIN QueriedPost.comments :
         Contains(e_result.current_comment_ids, QueriedPost.comments[k].id)
    /\ Len(e_result.found.value) = 2
    /\ e_result.found.value[1].engagement_score
         > e_result.found.value[2].engagement_score
    /\ \E k, m \in DOMAIN QueriedPost.comments :
         /\ k < m
         /\ QueriedPost.comments[m] = e_result.found.value[1]
         /\ QueriedPost.comments[k] = e_result.found.value[2]

----------------------------------------------------------------------------
(* Simulation::tick as one step, with the agents advanced in a given order *)

RECURSIVE TickInOrder(_, _, _, _, _, _, _)
\* the loop of Simulation::tick from position k of `order` on, then the merge;
\* draws[i] is what agent i reads from the random source in this tick.  The
\* agent's tick is evaluated once, as the one element r of a set.
TickInOrder(order, k, agent_list, pool, batch, draws, now) ==
    IF k > Len(order)
    THEN [agents |-> agent_list, pool |-> pool \o batch, panic |-> FALSE]
    ELSE CHOOSE after \in
            {IF r.panic
             THEN [agents |-> agent_list, pool |-> pool, panic |-> TRUE]
             ELSE TickInOrder(order, k + 1,
                              [agent_list EXCEPT ![order[k]] = r.agent], r.pool,
                              IF r.out.kind = "Some" THEN Append(batch, r.out.value)
                                                     ELSE batch,
                              draws, now) :
                r \in {AgentTick(agent_list[order[k]], pool, draws[order[k]], now)}} :
            TRUE

RECURSIVE DrawSeqsFrom(_, _)
\* one choice of draws for every agent of the list from position k on
DrawSeqsFrom(agent_list, k) ==
    IF k > Len(agent_list) THEN {<<>>}
    ELSE {<<d>> \o rest : d \in DrawsFor(agent_list[k]),
                         rest \in DrawSeqsFrom(agent_list, k + 1)}

DrawSeqs(agent_list) == DrawSeqsFrom(agent_list, 1)

\* the orders the agents of a list can be advanced in
Orders(agent_list) == DistinctSeqs(DOMAIN agent_list, Len(agent_list))

ListOrder(agent_list) == [i \in DOMAIN agent_list |-> i]

InitOrder ==
    /\ o_agents \in SimulationNew
    /\ p_agents = o_agents
    /\ o_pool = <<>> /\ p_pool = <<>> /\ o_perm = <<>>
    /\ agents = <<>> /\ content_pool = <<>> /\ clock = 0 /\ last_tick = 0
    /\ tick_idx = 0 /\ new_content = <<>> /\ tick_start_pool = <<>>
    /\ aborted = Running /\ api_calls = 0
    /\ w_agent = Idle /\ w_engine = <<>> /\ w_result = Idle
    /\ e_pool = <<>> /\ e_result = Idle
    /\ f_profile = <<>> /\ f_result = Idle

\* a due Simulation::tick on (o_agents, o_pool), run in list order and, with
\* the same draws, in the order o_perm'
OrderedTick ==
    /\ clock < MaxTicks
    /\ clock' = clock + 1
    /\ \E order \in Orders(o_agents), draws \in DrawSeqs(o_agents) :
         \E listed \in {TickInOrder(ListOrder(o_agents), 1, o_agents, o_pool,
                                    <<>>, draws, clock')},
            permuted \in {TickInOrder(order, 1, o_agents, o_pool,
                                      <<>>, draws, clock')} :
            /\ ~listed.panic /\ ~permuted.panic
            /\ PoolWithinBounds(listed.pool)
            /\ o_agents' = listed.agents /\ o_pool' = listed.pool
            /\ p_agents' = permuted.agents /\ p_pool' = permuted.pool
            /\ o_perm' = order
    /\ UNCHANGED <<agents, content_pool, last_tick, tick_idx, new_content,
                   tick_start_pool, aborted, api_calls>>
    /\ UNCHANGED <<wVars, eVars, fVars>>

NextOrder == OrderedTick

SpecOrder == InitOrder /\ [][NextOrder]_vars

\* the posts of a pool, each with the set of its comments
PoolContent(pool) ==
    {[pool[i] EXCEPT !.comments = Range(@)] : i \in DOMAIN pool}

\* C3: the result of a Simulation tick does not depend on the order the agents
\* are advanced in: with the same per-agent draws, every permutation of the
\* agent list leaves every agent in the same new state and the same set of
\* posts and comments in the pool after the merge.
C3_TickOrderIndependent ==
    o_perm # <<>> =>
        /\ p_agents = o_agents
        /\ PoolContent(p_pool) = PoolContent(o_pool)

----------------------------------------------------------------------------
(* The typestate agent IndividualAgent<S> and IndividualWrapper              *)
(* (models/agents/individual/individual.rs, models/agents/states.rs)         *)

BaseContentLength == 4     \* config.base_content_length

IndividualAgent(individual_core, core, state) ==
    [kind |-> "IndividualAgent", individual_core |-> individual_core,
     core |-> core, state |-> state]

\* the agent of a conversion that failed or panicked: it was moved in and dropped
Moved == [kind |-> "Moved"]

\* TransitionError
NoPostAvailable == [name |-> "NoPostAvailable"]
PostNotFound(id) == [name |-> "PostNotFound", id |-> id]
NoCommentsAvailable == [name |-> "NoCommentsAvailable"]

\* Result<IndividualAgent<S>, TransitionError>, or a panic
Ok(agent) == [kind |-> "Ok", agent |-> agent]
Err(error) == [kind |-> "Err", error |-> error]
Panic == [kind |-> "Panic"]

\* ReadingPost::new
ReadingPostNew(post, read_speed, interest_profile) ==
    ReadingPost(post.id, post.creator_id, 0,
                calculate_required_ticks(post.length, read_speed),
                calculate_interest_gain(interest_profile, post.interest_profile))

\* ReadingComments::new, for a non-empty list of comments (it indexes comments[0])
ReadingCommentsNew(post, comments, read_speed, interest_profile) ==
    ReadingComments(post.id, post.creator_id,
                    [i \in DOMAIN comments |-> comments[i].id], 0, 0,
                    (comments[1].length * (Scale - read_speed)) \div Scale,
                    calculate_interest_gain(interest_profile,
                                            comments[1].interest_profile))

\* CreatingPost::new
CreatingPostNew(write_speed, post_id) ==
    CreatingPost(post_id, 0, (BaseContentLength * write_speed) \div Scale)

\* CreatingComment::new
CreatingCommentNew(write_speed, post_id, comment_id) ==
    CreatingComment(post_id, comment_id, 0,
                    (BaseContentLength * write_speed) \div Scale)

\* IndividualAgent<Scrolling>::new
ScrollingNew(individual_core, core, pool, now) ==
    IndividualAgent(individual_core, core,
        Scrolling(get_post_recommendations(pool, core.interest_profile,
                      individual_core.viewed_content, RecommendationCount, now)))

\* IndividualAgent<Scrolling>::select_post: every id of the batch is looked up
\* and unwrapped; the walk over the scored posts is a lazy map that is never
\* run, so the function ends in its final None
select_post(agent, pool) ==
    IF agent.state.recommended_post_ids = <<>> THEN None
    ELSE IF \E i \in DOMAIN agent.state.recommended_post_ids :
                IndexOfId(pool, agent.state.recommended_post_ids[i]) = 0
    THEN Panic
    ELSE None

\* From<(IndividualAgent<Offline>, &RecommendationEngine)> for Scrolling, and
\* the same from ReadingPost and from CreatingPost
ToScrolling(agent, pool, now) ==
    Ok(ScrollingNew(agent.individual_core, agent.core, pool, now))

\* From<(IndividualAgent<Scrolling>, &RecommendationEngine)> for Scrolling
RefreshScrolling(agent, pool, now) ==
    Ok([agent EXCEPT !.state =
          Scrolling(get_post_recommendations(pool, agent.core.interest_profile,
                        agent.individual_core.viewed_content,
                        RecommendationCount, now))])

\* TryFrom<(IndividualAgent<Scrolling>, &RecommendationEngine)> for ReadingPost
ScrollingToReadingPost(agent, pool) ==
    LET post == select_post(agent, pool)
    IN IF post.kind = "Panic" THEN Panic
       ELSE IF post.kind = "None" THEN Err(NoPostAvailable)
       ELSE Ok([agent EXCEPT !.state =
                  ReadingPostNew(post.value, agent.individual_core.read_speed,
                                 agent.core.interest_profile)])

\* TryFrom<(IndividualAgent<Scrolling>, &RecommendationEngine)> for ReadingComments
ScrollingToReadingComments(agent, pool) ==
    LET post == select_post(agent, pool)
        selected_comments ==
            get_comment_recommendations(pool, post.value.id, <<>>,
                                        RecommendationCount)
    IN IF post.kind = "Panic" THEN Panic
       ELSE IF post.kind = "None" THEN Err(NoPostAvailable)
       ELSE IF selected_comments.kind = "None" THEN Err(NoCommentsAvailable)
       ELSE IF selected_comments.value = <<>> THEN Panic
       ELSE Ok([agent EXCEPT !.state =
                  ReadingCommentsNew(post.value, selected_comments.value,
                                     agent.individual_core.read_speed,
                                     agent.core.interest_profile)])

\* From<(IndividualAgent<Scrolling>, &SimulationConfig)> for CreatingPost
ScrollingToCreatingPost(agent, post_id) ==
    Ok([agent EXCEPT !.state = CreatingPostNew(agent.core.create_speed, post_id)])

\* TryFrom<(IndividualAgent<Scrolling>, &SimulationConfig, &RecommendationEngine)>
\* for CreatingComment
ScrollingToCreatingComment(agent, pool, comment_id) ==
    LET post == select_post(agent, pool)
    IN IF post.kind = "Panic" THEN Panic
       ELSE IF post.kind = "None" THEN Err(NoPostAvailable)
       ELSE Ok([agent EXCEPT !.state =
                  CreatingCommentNew(agent.core.create_speed, post.value.id,
                                     comment_id)])

\* TryFrom<(IndividualAgent<ReadingPost>, &RecommendationEngine)> for ReadingComments
ReadingPostToReadingComments(agent, pool) ==
    LET post == get_content_by_id(pool, agent.state.post_id)
        selected_comments ==
            get_comment_recommendations(pool, post.value.id, <<>>,
                                        RecommendationCount)
    IN IF post.kind = "None" THEN Err(PostNotFound(agent.state.post_id))
       ELSE IF selected_comments.kind = "None" THEN Err(NoCommentsAvailable)
       ELSE IF selected_comments.value = <<>> THEN Panic
       ELSE Ok([agent EXCEPT !.state =
                  ReadingCommentsNew(post.value, selected_comments.value,
                                     agent.individual_core.read_speed,
                                     agent.core.interest_profile)])

\* TryFrom<(IndividualAgent<ReadingPost>, &SimulationConfig, &RecommendationEngine)>
\* for CreatingComment
ReadingPostToCreatingComment(agent, pool, comment_id) ==
    LET post == get_content_by_id(pool, agent.state.post_id)
    IN IF post.kind = "None" THEN Err(PostNotFound(agent.state.post_id))
       ELSE Ok([agent EXCEPT !.state =
                  CreatingCommentNew(agent.core.create_speed, post.value.id,
                                     comment_id)])

\* From<IndividualAgent<CreatingPost>> for IndividualAgent<Offline>
CreatingPostToOffline(agent) == Ok([agent EXCEPT !.state = Offline])

\* IndividualWrapper::tick: Offline becomes Scrolling, every other variant is
\* unimplemented!()
WrapperTickResult(agent, pool, now) ==
    IF agent.state.kind = "Offline" THEN ToScrolling(agent, pool, now)
    ELSE Panic

----------------------------------------------------------------------------
(* DefaultPolicy (models/agents/individual/transitions.rs) *)

PolicyDraws == {0, 500, 850, 920, 970}   \* random_val, one per branch

\* DefaultPolicy::decide_offline_transition
decide_offline_transition(agent) == "ToScrolling"

\* DefaultPolicy::decide_scrolling_transition
decide_scrolling_transition(agent, random_val) ==
    LET post_threshold == (600 * agent.individual_core.next_post_likelihood) \div Scale
    IN IF random_val < post_threshold THEN "ToReadingPost"
       ELSE IF random_val < 800 THEN "ToReadingComments"
       ELSE IF random_val < 900 THEN "ToCreatingPost"
       ELSE IF random_val < 950 THEN "ToCreatingComment"
       ELSE "ToOffline"

\* DefaultPolicy::decide_reading_post_transition
decide_reading_post_transition(agent, random_val) ==
    IF agent.state.ticks_spent >= agent.state.ticks_required
    THEN IF random_val < 400 THEN "ToReadingComments"
         ELSE IF random_val < 600 THEN "ToCreatingComment"
         ELSE IF random_val < 950 THEN "ToScrolling"
         ELSE "ToOffline"
    ELSE "Continue"

\* DefaultPolicy::decide_reading_comments_transition.  len() - 1 on an empty
\* list of ids overflows usize: a panic in a build with overflow checks, the
\* largest usize in one without
decide_reading_comments_transition(agent, random_val, overflow_checks) ==
    IF agent.state.ticks_spent >= agent.state.ticks_required
    THEN IF agent.state.current_comment_ids = <<>> /\ overflow_checks THEN "Panic"
         ELSE IF agent.state.current_comment_ids = <<>> THEN "Continue"
         ELSE IF agent.state.current_comment_index
                    < Len(agent.state.current_comment_ids) - 1
         THEN "Continue"
         ELSE IF random_val < 200 THEN "ToCreatingComment"
         ELSE IF random_val < 900 THEN "ToScrolling"
         ELSE "ToOffline"
    ELSE "Continue"

\* DefaultPolicy::decide_creating_post_transition
decide_creating_post_transition(agent, random_val) ==
    IF agent.state.ticks_spent >= agent.state.ticks_required
    THEN IF random_val < 800 THEN "ToScrolling" ELSE "ToOffline"
    ELSE "Continue"

\* DefaultPolicy::decide_creating_comment_transition
decide_creating_comment_transition(agent, random_val) ==
    IF agent.state.ticks_spent >= agent.state.ticks_required
    THEN IF random_val < 800 THEN "ToScrolling" ELSE "ToOffline"
    ELSE "Continue"

\* the policy's decision for the agent, whatever its state
Decision(agent, random_val, overflow_checks) ==
    LET kind == agent.state.kind
    IN IF kind = "Offline" THEN decide_offline_transition(agent)
       ELSE IF kind = "Scrolling" THEN decide_scrolling_transition(agent, random_val)
       ELSE IF kind = "ReadingPost"
       THEN decide_reading_post_transition(agent, random_val)
       ELSE IF kind = "ReadingComments"
       THEN decide_reading_comments_transition(agent, random_val, overflow_checks)
       ELSE IF kind = "CreatingPost"
       THEN decide_creating_post_transition(agent, random_val)
       ELSE decide_creating_comment_transition(agent, random_val)

\* C30: of two posts with the same timestamp and the same engagement_score,
\* scored for the same viewer at the same time with a positive interest
\* weight, the one whose similarity to the viewer is 1.0 gets a strictly
\* higher calculate_content_score than the one whose similarity is 0.0,
\* whatever the shared timestamp and engagement_score.
C30_SimilarPostScoresHigher ==
    (/\ e_result.kind = "calculate_content_score"
     /\ e_result.similarities = <<Scale, 0>>
     /\ InterestWeight > 0) =>
        e_result.scores[1] > e_result.scores[2]

----------------------------------------------------------------------------
(* A typestate agent, an engine, and what a caller can do with the two.      *)
(* Every variant of IndividualWrapper and every field of IndividualAgent is  *)
(* pub, so a caller can hold an agent in any state next to any engine.       *)

ReadingTicks == {<<0, 2>>, <<2, 2>>, <<0, 10>>}   \* <<ticks_spent, ticks_required>>
WritingTicks == {<<0, 2>>, <<2, 2>>}

WrapperCore ==
    [id |-> 0, content_creation_frequency |-> 300, created_content |-> <<>>,
     create_speed |-> 500, interest_profile |-> NewProfile]

WrapperIndividualCore(likelihood, attention) ==
    [next_post_likelihood |-> likelihood, attention_span |-> attention,
     read_speed |-> 0, viewed_content |-> <<>>, session_length_ticks |-> 0]

WrapperStates ==
    {Offline}
    \cup {Scrolling(ids) : ids \in {<<>>} \cup {<<i>> : i \in Ids}}
    \cup {ReadingPost(i, 0, t[1], t[2], BaseGain) : i \in Ids, t \in ReadingTicks}
    \cup {ReadingComments(1, 0, ids, 0, t[1], t[2], BaseGain) :
            ids \in {<<>>, <<1>>}, t \in WritingTicks}
    \cup {CreatingPost(1, t[1], t[2]) : t \in WritingTicks}
    \cup {CreatingComment(1, 1, t[1], t[2]) : t \in WritingTicks}

WrapperAgents ==
    {IndividualAgent(WrapperIndividualCore(l, a), WrapperCore, st) :
        l \in NextPostLikelihoods, a \in AttentionSpans, st \in WrapperStates}

\* the engines: empty, one post, one post with a comment on it
WrapperPools ==
    {<<>>,
     <<Post(1, 2, 0, NewProfile, 2)>>,
     <<[Post(1, 2, 0, NewProfile, 2) EXCEPT
          !.comments = <<Comment(1, 0, 0, NewProfile, 1)>>]>>}

InitWrapper ==
    /\ w_agent \in WrapperAgents
    /\ w_engine \in WrapperPools
    /\ w_result = Idle
    /\ agents = <<>> /\ content_pool = <<>> /\ clock = 0 /\ last_tick = 0
    /\ tick_idx = 0 /\ new_content = <<>> /\ tick_start_pool = <<>>
    /\ aborted = Running /\ api_calls = 0
    /\ o_agents = <<>> /\ o_pool = <<>> /\ p_agents = <<>> /\ p_pool = <<>>
    /\ o_perm = <<>>
    /\ e_pool = <<>> /\ e_result = Idle
    /\ f_profile = <<>> /\ f_result = Idle

InState(kind) == w_agent.kind = "IndividualAgent" /\ w_agent.state.kind = kind

\* some id of the agent's recommendation batch is not in the engine
BatchUnresolved ==
    \E i \in DOMAIN w_agent.state.recommended_post_ids :
        IndexOfId(w_engine, w_agent.state.recommended_post_ids[i]) = 0

\* the post the agent is reading is not in the engine
ReadingUnresolved == IndexOfId(w_engine, w_agent.state.post_id) = 0

\* the caller keeps what a conversion returned; the agent it moved in is gone
Converted(to, r, post_unresolved) ==
    /\ w_agent' = IF r.kind = "Ok" THEN r.agent ELSE Moved
    /\ w_result' = [kind |-> "conversion", from |-> w_agent.state.kind, to |-> to,
                    state |-> w_agent.state,
                    result |-> IF r.kind = "Ok" THEN [kind |-> "Ok"] ELSE r,
                    post_unresolved |-> post_unresolved]
    /\ UNCHANGED <<w_engine, simVars, oVars, eVars, fVars>>

\* IndividualWrapper::tick(self, engine)
WrapperTick ==
    /\ w_agent.kind = "IndividualAgent"
    /\ LET r == WrapperTickResult(w_agent, w_engine, clock)
       IN /\ w_agent' = IF r.kind = "Ok" THEN r.agent ELSE Moved
          /\ w_result' = [kind |-> "tick", from |-> w_agent.state.kind,
                          next_post_likelihood |->
                              w_agent.individual_core.next_post_likelihood,
                          result |-> r.kind]
    /\ UNCHANGED <<w_engine, simVars, oVars, eVars, fVars>>

\* .into() Scrolling, from Offline, ReadingPost or CreatingPost
ConvertToScrolling ==
    /\ InState("Offline") \/ InState("ReadingPost") \/ InState("CreatingPost")
    /\ Converted("Scrolling", ToScrolling(w_agent, w_engine, clock), FALSE)

ConvertRefreshScrolling ==
    /\ InState("Scrolling")
    /\ Converted("Scrolling", RefreshScrolling(w_agent, w_engine, clock), FALSE)

ConvertScrollingToReadingPost ==
    /\ InState("Scrolling")
    /\ Converted("ReadingPost", ScrollingToReadingPost(w_agent, w_engine),
                 BatchUnresolved)

ConvertScrollingToReadingComments ==
    /\ InState("Scrolling")
    /\ Converted("ReadingComments", ScrollingToReadingComments(w_agent, w_engine),
                 BatchUnresolved)

ConvertScrollingToCreatingPost ==
    /\ InState("Scrolling")
    /\ \E post_id \in StateIds :
         Converted("CreatingPost", ScrollingToCreatingPost(w_agent, post_id), FALSE)

ConvertScrollingToCreatingComment ==
    /\ InState("Scrolling")
    /\ \E comment_id \in StateIds :
         Converted("CreatingComment",
                   ScrollingToCreatingComment(w_agent, w_engine, comment_id),
                   BatchUnresolved)

ConvertReadingPostToReadingComments ==
    /\ InState("ReadingPost")
    /\ Converted("ReadingComments", ReadingPostToReadingComments(w_agent, w_engine),
                 ReadingUnresolved)

ConvertReadingPostToCreatingComment ==
    /\ InState("ReadingPost")
    /\ \E comment_id \in StateIds :
         Converted("CreatingComment",
                   ReadingPostToCreatingComment(w_agent, w_engine, comment_id),
                   ReadingUnresolved)

ConvertCreatingPostToOffline ==
    /\ InState("CreatingPost")
    /\ Converted("Offline", CreatingPostToOffline(w_agent), FALSE)

\* DefaultPolicy.decide_*_transition(&agent): the agent is only read
Decide ==
    /\ w_agent.kind = "IndividualAgent"
    /\ \E random_val \in PolicyDraws, overflow_checks \in BOOLEAN :
         w_result' = [kind |-> "decision", from |-> w_agent.state.kind,
                      random_val |-> random_val,
                      transition |-> Decision(w_agent, random_val, overflow_checks)]
    /\ UNCHANGED <<w_agent, w_engine, simVars, oVars, eVars, fVars>>

NextWrapper ==
    \/ WrapperTick
    \/ ConvertToScrolling
    \/ ConvertRefreshScrolling
    \/ ConvertScrollingToReadingPost
    \/ ConvertScrollingToReadingComments
    \/ ConvertScrollingToCreatingPost
    \/ ConvertScrollingToCreatingComment
    \/ ConvertReadingPostToReadingComments
    \/ ConvertReadingPostToCreatingComment
    \/ ConvertCreatingPostToOffline
    \/ Decide

SpecWrapper == InitWrapper /\ [][NextWrapper]_vars

\* C33: a post id that appeared in one of an Individual's Scrolling
\* recommendation batches never appears in a later batch of that agent: when
\* a Scrolling agent fetches its next batch, no id of the batch it held is in
\* the new one.
C33_BatchesNeverRepeat ==
    [][(/\ InState("Scrolling")
        /\ w_result'.kind = "conversion" /\ w_result'.to = "Scrolling"
        /\ w_result'.result.kind = "Ok") =>
          \A i \in DOMAIN w_agent.state.recommended_post_ids :
            \A j \in DOMAIN w_agent'.state.recommended_post_ids :
              w_agent'.state.recommended_post_ids[j]
                  # w_agent.state.recommended_post_ids[i]]_vars

\* C2: from every state of an Individual (Offline, Scrolling, ReadingPost,
\* ReadingComments, CreatingPost, CreatingComment) and for every content pool,
\* the empty one included, one tick returns a valid agent state: no tick hits
\* an unhandled case or aborts.
C2_TickIsTotal ==
    w_result.kind = "tick" =>
        /\ w_result.result = "Ok"
        /\ w_agent.kind = "IndividualAgent"
        /\ w_agent.state.kind \in {"Offline", "Scrolling", "ReadingPost",
                                   "ReadingComments", "CreatingPost",
                                   "CreatingComment"}

\* C4: a transition that refers to a post id the engine cannot resolve, be it
\* an id of the recommendation batch or the post_id of the reading state,
\* reports PostNotFound and leaves the agent in Scrolling; it never aborts.
C4_UnresolvedPostIsReported ==
    (w_result.kind = "conversion" /\ w_result.post_unresolved) =>
        /\ w_result.result.kind = "Err"
        /\ w_result.result.error.name = "PostNotFound"
        /\ w_agent.kind = "IndividualAgent"
        /\ w_agent.state.kind = "Scrolling"

\* C9: an Individual in Offline moves to Scrolling on a tick exactly when the
\* tick's draw is below its next_post_likelihood and otherwise stays Offline.
\* No draw of [0, 1) is below 0, so with next_post_likelihood = 0 the agent is
\* Offline after every tick it began Offline.
C9_OfflineUntilDrawBelowLikelihood ==
    (w_result.kind = "tick" /\ w_result.from = "Offline"
        /\ w_result.next_post_likelihood = 0) =>
        /\ w_agent.kind = "IndividualAgent"
        /\ w_agent.state.kind = "Offline"

\* C10: an Individual in ReadingPost leaves ReadingPost exactly when
\* ticks_spent >= ticks_required or the draw exceeds attention_span, and
\* otherwise stays on the post; so with attention_span = 0 and
\* ticks_required = 10 it leaves before ticks_spent reaches 10.
C10_ReadingPostLeavesOnAttention ==
    (w_result.kind = "decision" /\ w_result.from = "ReadingPost") =>
        ((w_result.transition # "Continue")
            <=> (\/ w_agent.state.ticks_spent >= w_agent.state.ticks_required
                 \/ w_result.random_val > w_agent.individual_core.attention_span))

----------------------------------------------------------------------------
(* A Simulation of one Individual over an engine that already holds content *)
(* (config.num_individuals = 1, no Bot, no Organisation; the posts and      *)
(* comments were put there through create_post and add_comment_to_post)     *)

MaxSessionTicks == 5       \* the session's clock stops here

\* a Bot's post as generate_content builds it, and comments of another agent
StockPost(id) == Post(id, 1, 0, StartingProfile({"politics"}, 500), 2)
StockComment(id, length) ==
    Comment(id, 2, 0,
            normalise_weights(ProfileOf(
                [t \in {"politics", "technology"} |->
                    Topic(IF t = "politics" THEN Scale ELSE 2 * Scale, 850)])),
            length)

\* what the engine holds when the session starts
StockPools ==
    {<<>>,
     <<StockPost(1)>>,
     <<[StockPost(1) EXCEPT
          !.comments = <<StockComment(1, 2), StockComment(2, 1)>>]>>,
     <<[StockPost(1) EXCEPT !.comments = <<StockComment(1, 1)>>],
       StockPost(2)>>}

InitSession ==
    /\ agents \in {<<NewIndividual(0, l, a, rs, cs)>> :
                     l \in NextPostLikelihoods, a \in AttentionSpans,
                     rs \in ReadSpeeds, cs \in CreateSpeeds}
    /\ content_pool \in StockPools
    /\ clock = 0 /\ last_tick = 0 /\ tick_idx = 0
    /\ new_content = <<>> /\ tick_start_pool = <<>>
    /\ aborted = Running /\ api_calls = 0
    /\ OthersIdle

\* time passes and the due Simulation::tick runs: its loop over the agents,
\* then the merge
SessionTick ==
    /\ aborted = Running
    /\ clock < MaxSessionTicks
    /\ clock' = clock + 1
    /\ last_tick' = clock'
    /\ tick_start_pool' = content_pool
    /\ \E draws \in DrawSeqs(agents) :
         \E r \in {TickInOrder(ListOrder(agents), 1, agents, content_pool,
                               <<>>, draws, clock')} :
            IF r.panic
            THEN aborted' = "Agent::tick" /\ UNCHANGED <<agents, content_pool>>
            ELSE /\ agents' = r.agents
                 /\ content_pool' = r.pool
                 /\ UNCHANGED aborted
    /\ UNCHANGED <<tick_idx, new_content, api_calls>>
    /\ UNCHANGED <<wVars, oVars, eVars, fVars>>

NextSession == SessionTick

SpecSession == InitSession /\ [][NextSession]_vars

\* the transition table of an Individual
TransitionTable ==
    [k \in {"Offline", "Scrolling", "ReadingPost", "ReadingComments",
            "CreatingPost", "CreatingComment"} |->
        IF k = "Offline" THEN {"Offline", "Scrolling"}
        ELSE IF k = "Scrolling"
        THEN {"Scrolling", "ReadingPost", "ReadingComments", "CreatingPost",
              "CreatingComment", "Offline"}
        ELSE IF k = "ReadingPost"
        THEN {"ReadingPost", "ReadingComments", "CreatingComment", "Scrolling",
              "Offline"}
        ELSE IF k = "ReadingComments"
        THEN {"ReadingComments", "CreatingComment", "Scrolling", "Offline"}
        ELSE IF k = "CreatingPost" THEN {"CreatingPost", "Scrolling", "Offline"}
        ELSE {"CreatingComment", "Scrolling", "Offline"}]

TickOutcomes(self, pool, now) ==
    {IF r.panic THEN "panic" ELSE r.agent.state.kind :
        r \in {IndividualTick(self, pool, d, now) : d \in DrawsFor(self)}}

\* the session's Individual is in Scrolling: every draw of its next tick
SurveyScrolling ==
    /\ aborted = Running
    /\ agents[1].state.kind = "Scrolling"
    /\ f_result' = [kind |-> "scrolling outcomes",
                    recommended_post_ids |-> agents[1].state.recommended_post_ids,
                    kinds |-> TickOutcomes(agents[1], content_pool, clock + 1)]
    /\ UNCHANGED <<f_profile, simVars, wVars, oVars, eVars>>

NextSurvey == SessionTick \/ SurveyScrolling

SpecSurvey == InitSession /\ [][NextSurvey]_vars

\* the batch holds a post of the pool that has comments
BatchHoldsCommentedPost(recommended_post_ids) ==
    \E i \in DOMAIN recommended_post_ids :
        /\ IndexOfId(content_pool, recommended_post_ids[i]) # 0
        /\ content_pool[IndexOfId(content_pool, recommended_post_ids[i])].comments
              # <<>>

\* C38: every edge out of Scrolling in the transition table can be taken: for
\* an Individual in Scrolling whose batch holds a post with comments there
\* are draws for which the next tick leads to ReadingPost, to
\* ReadingComments, to CreatingPost, to CreatingComment and to Offline.
C38_EveryScrollingEdgeCanBeTaken ==
    (/\ f_result.kind = "scrolling outcomes"
     /\ BatchHoldsCommentedPost(f_result.recommended_post_ids)) =>
        {"ReadingPost", "ReadingComments", "CreatingPost", "CreatingComment",
         "Offline"} \subseteq f_result.kinds

\* the states that carry tick counters
CountingKinds == {"ReadingPost", "ReadingComments", "CreatingPost", "CreatingComment"}

\* C37: in every reachable agent state that carries tick counters
\* (ReadingPost, ReadingComments, CreatingPost, CreatingComment),
\* 0 <= ticks_spent <= ticks_required, so that the progress ratio
\* ticks_spent / ticks_required never exceeds 1.
C37_TicksSpentWithinRequired ==
    \A i \in DOMAIN agents :
        agents[i].state.kind \in CountingKinds =>
            /\ 0 <= agents[i].state.ticks_spent
            /\ agents[i].state.ticks_spent <= agents[i].state.ticks_required

\* max(1, n)
AtLeastOne(n) == IF n >= 1 THEN n ELSE 1

\* C39: no agent works on one item forever: an agent that starts reading a
\* post, reading a comment, creating a post or creating a comment with
\* ticks_required = n stops working on that item within max(1, n) ticks,
\* whatever the draws; so no agent is found still on an item on which it has
\* already spent max(1, n) ticks.
C39_ItemLeftWithinRequiredTicks ==
    \A i \in DOMAIN agents :
        agents[i].state.kind \in CountingKinds =>
            agents[i].state.ticks_spent < AtLeastOne(agents[i].state.ticks_required)

\* one Bot over an engine that starts empty, ticked by the Simulation
InitBot ==
    /\ agents \in {<<NewBot(0, tags, ag, bp)>> :
                     tags \in SUBSET {"politics", "technology", "science"} \ {{}},
                     ag \in {-500, 500}, bp \in Ids}
    /\ content_pool = <<>>
    /\ clock = 0 /\ last_tick = 0 /\ tick_idx = 0
    /\ new_content = <<>> /\ tick_start_pool = <<>>
    /\ aborted = Running /\ api_calls = 0
    /\ OthersIdle

SpecBot == InitBot /\ [][NextSession]_vars

\* C34: a Bot never leaves CreatingPost, and with bot_creation_ticks = N it
\* emits exactly one post on every N-th of its ticks and none in between:
\* after k ticks it is k mod N ticks into a creation and has put k div N
\* posts, all its own, into the engine.
C34_BotPostsEveryNthTick ==
    /\ aborted = Running
    /\ agents[1].state.kind = "CreatingPost"
    /\ agents[1].state.ticks_required = BotCreationTicks
    /\ agents[1].state.ticks_spent = clock % BotCreationTicks
    /\ Len(agents[1].created_content) = clock \div BotCreationTicks
    /\ Len(content_pool) = clock \div BotCreationTicks
    /\ \A i \in DOMAIN content_pool :
         /\ content_pool[i].creator_id = agents[1].id
         /\ content_pool[i].timestamp = i * BotCreationTicks

\* C34 witness: after the tick that follows the Bot's second post the pool
\* holds the posts of ticks N and 2N and the third creation is under way.
C34_Witness ==
    /\ clock = 2 * BotCreationTicks + 1
    /\ Len(content_pool) = 2
    /\ agents[1].state.kind = "CreatingPost"
    /\ agents[1].state.ticks_spent = 1

MaxAgents == 4             \* the agent list is not grown beyond this length

AgentTypes == {"Individual", "Bot", "Organisation"}

\* the agents Individual::new, Bot::new and Organisation::new can return
NewAgents(agent_type, id) ==
    IF agent_type = "Individual"
    THEN {NewIndividual(id, l, a, rs, cs) :
            l \in NextPostLikelihoods, a \in AttentionSpans, rs \in ReadSpeeds,
            cs \in CreateSpeeds}
    ELSE IF agent_type = "Bot"
    THEN {NewBot(id, tags, ag, 1) : tags \in BotTagSets, ag \in Agreements}
    ELSE {NewOrganisation(id, "technology", oag, 1, r) :
            oag \in OrgAgreements, r \in OrgTickDraws}

\* rposition: the last index whose agent has this type, 0 when there is none
LastOfType(agent_list, agent_type) ==
    IF \E i \in DOMAIN agent_list : agent_list[i].type = agent_type
    THEN CHOOSE i \in DOMAIN agent_list :
            /\ agent_list[i].type = agent_type
            /\ \A j \in DOMAIN agent_list :
                 agent_list[j].type = agent_type => j <= i
    ELSE 0

\* Vec::remove(pos)
RemoveAt(agent_list, pos) ==
    [i \in 1..(Len(agent_list) - 1) |->
        IF i < pos THEN agent_list[i] ELSE agent_list[i + 1]]

\* Simulation::add_agent: the new agent's id is the length of the list
add_agent(agent_list, new_agent) == Append(agent_list, new_agent)

\* Simulation::remove_agent
remove_agent(agent_list, agent_type) ==
    IF LastOfType(agent_list, agent_type) # 0
    THEN RemoveAt(agent_list, LastOfType(agent_list, agent_type))
    ELSE agent_list

\* SimulationApp::handle_agent_count_change raising a count by one
AddAgent ==
    /\ aborted = Running /\ tick_idx = 0
    /\ Len(agents) < MaxAgents
    /\ \E agent_type \in AgentTypes :
         \E new_agent \in NewAgents(agent_type, Len(agents)) :
            agents' = add_agent(agents, new_agent)
    /\ UNCHANGED <<content_pool, clock, last_tick, tick_idx, new_content,
                   tick_start_pool, aborted, api_calls>>
    /\ UNCHANGED <<wVars, oVars, eVars, fVars>>

\* SimulationApp::handle_agent_count_change lowering a count by one
RemoveAgent ==
    /\ aborted = Running /\ tick_idx = 0
    /\ \E agent_type \in AgentTypes :
         agents' = remove_agent(agents, agent_type)
    /\ UNCHANGED <<content_pool, clock, last_tick, tick_idx, new_content,
                   tick_start_pool, aborted, api_calls>>
    /\ UNCHANGED <<wVars, oVars, eVars, fVars>>

NextRoster == AddAgent \/ RemoveAgent

\* Simulation::new, then the user changing the agent counts
SpecRoster == Init /\ [][NextRoster]_vars

\* C36: agent ids are pairwise distinct in every reachable Simulation state:
\* after Simulation::new and any sequence of add_agent and remove_agent
\* calls, no two agents of the list share an id.
C36_AgentIdsDistinct ==
    \A i, j \in DOMAIN agents : agents[i].id = agents[j].id => i = j

\* C13: when an Individual in CreatingComment{post_id, comment_id} completes
\* (ticks_spent >= ticks_required), exactly one comment is appended to the
\* comments of the post whose id is post_id and to no other post, and that
\* comment's commentor_id is the id of the agent that created it.
C13_CommentGoesToItsPost ==
    [][\A i \in DOMAIN agents :
          (/\ agents[i].type = "Individual"
           /\ agents[i].state.kind = "CreatingComment"
           /\ agents[i].state.ticks_spent + 1 >= agents[i].state.ticks_required
           /\ clock' = clock + 1) =>
            LET k == IndexOfId(content_pool, agents[i].state.post_id) IN
            /\ k # 0
            /\ Len(content_pool') = Len(content_pool)
            /\ \A j \in DOMAIN content_pool :
                 j # k => content_pool'[j] = content_pool[j]
            /\ Len(content_pool'[k].comments) = Len(content_pool[k].comments) + 1
            /\ SubSeq(content_pool'[k].comments, 1, Len(content_pool[k].comments))
                 = content_pool[k].comments
            /\ content_pool'[k].comments[Len(content_pool'[k].comments)].commentor_id
                 = agents[i].id]_vars

\* C14: selecting a post from a non-empty recommendation batch whose ids all
\* resolve in the engine returns one of the ids of that batch, so the
\* transition into ReadingPost succeeds on a post of the batch; nothing is
\* selected only when the batch is empty.
C14_SelectionReturnsBatchId ==
    (/\ w_result.kind = "conversion"
     /\ w_result.from = "Scrolling" /\ w_result.to = "ReadingPost"
     /\ ~w_result.post_unresolved) =>
        IF w_result.state.recommended_post_ids = <<>>
        THEN w_result.result = Err(NoPostAvailable)
        ELSE /\ w_result.result.kind = "Ok"
             /\ w_agent.kind = "IndividualAgent"
             /\ w_agent.state.kind = "ReadingPost"
             /\ Contains(w_result.state.recommended_post_ids, w_agent.state.post_id)

\* C15: a transition into ReadingComments for a post that has no comment to
\* offer ends in the recoverable NoCommentsAvailable outcome; it never aborts
\* and never produces a ReadingComments state whose current_comment_ids is
\* empty.
C15_NoCommentsIsRecoverable ==
    (/\ w_result.kind = "conversion"
     /\ w_result.from = "ReadingPost" /\ w_result.to = "ReadingComments"
     /\ ~w_result.post_unresolved
     /\ w_engine[IndexOfId(w_engine, w_result.state.post_id)].comments = <<>>) =>
        /\ w_result.result = Err(NoCommentsAvailable)
        /\ ~(/\ InState("ReadingComments")
             /\ w_agent.state.current_comment_ids = <<>>)

----------------------------------------------------------------------------
(* The operations of InterestProfile, applied to every small profile *)

ProfileTags == {"politics", "technology", "science"}
ProfileWeights == {0, 500, 1000, 2000}     \* 0.0, 0.5, 1.0, and 2.0 unnormalised

\* the profiles over at most these tags, as InterestProfile::new plus inserts
\* into interests leaves them
ProfileAgreements == {-500, 500}           \* -0.5 and 0.5
Profiles ==
    UNION {{ProfileOf(interests) :
              interests \in [tags -> {Topic(w, a) : w \in ProfileWeights,
                                                    a \in ProfileAgreements}]} :
           tags \in SUBSET ProfileTags}

\* the tag table Simulation::new fills: sample_tags[i] is mapped to index i
tag_to_index == [politics |-> 0, technology |-> 1, science |-> 2]

\* profiles of content that a profile is updated from
SourceProfiles ==
    {NewProfile,
     StartingProfile({"politics"}, 850),
     StartingProfile({"technology", "science"}, -850)}

Intensities == {0, 100, 1000}              \* 0.0, 0.1 and 1.0
MaxTagsAsked == 3                          \* min_tags, max_tags are in 0..MaxTagsAsked

InitProfile ==
    /\ f_profile \in Profiles
    /\ f_result = Idle
    /\ agents = <<>> /\ content_pool = <<>> /\ clock = 0 /\ last_tick = 0
    /\ tick_idx = 0 /\ new_content = <<>> /\ tick_start_pool = <<>>
    /\ aborted = Running /\ api_calls = 0
    /\ w_agent = Idle /\ w_engine = <<>> /\ w_result = Idle
    /\ o_agents = <<>> /\ o_pool = <<>> /\ p_agents = <<>> /\ p_pool = <<>>
    /\ o_perm = <<>>
    /\ e_pool = <<>> /\ e_result = Idle

\* profile.normalise_weights(): f_profile keeps the profile as it was before
NormaliseWeights ==
    /\ f_result = Idle
    /\ f_result' = [kind |-> "normalise_weights",
                    profile |-> normalise_weights(f_profile)]
    /\ UNCHANGED <<f_profile, simVars, wVars, oVars, eVars>>

\* profile.normalise_weights(); profile.normalise_weights()
NormaliseWeightsTwice ==
    /\ f_result = Idle
    /\ \E once \in {normalise_weights(f_profile)} :
         f_result' = [kind |-> "normalise_weights twice",
                      once |-> once, twice |-> normalise_weights(once)]
    /\ UNCHANGED <<f_profile, simVars, wVars, oVars, eVars>>

\* profile.update_interest_from_post(&post, interest), post.interest_profile
\* being `source`: the post is borrowed immutably
UpdateInterestFromProfile ==
    /\ f_result = Idle
    /\ \E source \in SourceProfiles, interest \in Intensities :
         f_result' = [kind |-> "update_interest_from_profile",
                      source |-> source, interest |-> interest,
                      profile |-> update_interest_from_profile(f_profile, source,
                                                               interest),
                      source_after |-> source]
    /\ UNCHANGED <<f_profile, simVars, wVars, oVars, eVars>>

\* profile.select_content_tags(min_tags, max_tags)
SelectContentTags ==
    /\ f_result = Idle
    /\ \E min_tags \in 0..MaxTagsAsked :
         \E max_tags \in min_tags..MaxTagsAsked :
           \E tags \in select_content_tags(f_profile, min_tags, max_tags) :
             f_result' = [kind |-> "select_content_tags",
                          min_tags |-> min_tags, max_tags |-> max_tags,
                          panic |-> (tags = PanicTags),
                          tags |-> IF tags = PanicTags THEN <<>> ELSE tags]
    /\ UNCHANGED <<f_profile, simVars, wVars, oVars, eVars>>

\* profile.filtered_clone(&selected_tags): &self is borrowed immutably
FilteredClone ==
    /\ f_result = Idle
    /\ \E selected_tags \in SUBSET ProfileTags :
         f_result' = [kind |-> "filtered_clone",
                      selected_tags |-> selected_tags,
                      profile |-> filtered_clone(f_profile, selected_tags),
                      self_after |-> f_profile]
    /\ UNCHANGED <<f_profile, simVars, wVars, oVars, eVars>>

\* an Individual whose interest profile is f_profile, reading item 1 of a pool
\* of one post with one comment, both with the profile `source`
Reader(state) ==
    [NewIndividual(0, 500, Scale, 0, 500) EXCEPT
        !.interest_profile = f_profile, !.state = state]
ReaderPool(source) ==
    <<[Post(1, 1, 0, source, 2) EXCEPT !.comments = <<Comment(1, 2, 0, source, 2)>>]>>
ReaderStates ==
    {ReadingPost(1, 1, 0, 2, BaseGain),
     ReadingComments(1, 1, <<1>>, 0, 0, 2, BaseGain)}

\* one Agent::tick of that Individual in ReadingPost or ReadingComments
ReadingTick ==
    /\ f_result = Idle
    /\ \E source \in SourceProfiles, state \in ReaderStates :
         \E r \in {IndividualTick(Reader(state), ReaderPool(source), NoDraw, 1)} :
           f_result' = [kind |-> "reading tick", source |-> source,
                        panic |-> r.panic, agent |-> r.agent]
    /\ UNCHANGED <<f_profile, simVars, wVars, oVars, eVars>>

NextProfile ==
    \/ NormaliseWeights
    \/ NormaliseWeightsTwice
    \/ UpdateInterestFromProfile
    \/ SelectContentTags
    \/ FilteredClone
    \/ ReadingTick

SpecProfile == InitProfile /\ [][NextProfile]_vars

\* the weights sum to 1.0, to within one unit of the fixed-point grid per topic
SumsToOne(interests) ==
    /\ WeightSum(interests) <= Scale
    /\ WeightSum(interests) >= Scale - Cardinality(DOMAIN interests)

\* the weights of `after` are in the ratios of the weights of `before`, to
\* within the rounding of one grid unit per weight
RatiosPreserved(before, after) ==
    /\ DOMAIN after = DOMAIN before
    /\ \A t, u \in DOMAIN before :
         LET cross == after[t].weighted_interest * before[u].weighted_interest
                      - after[u].weighted_interest * before[t].weighted_interest
             slack == Max(before[t].weighted_interest, before[u].weighted_interest)
         IN cross <= slack /\ 0 - cross <= slack
    /\ \A t \in DOMAIN before :
         (before[t].weighted_interest = 0) = (after[t].weighted_interest = 0)

\* C20 as stated: normalise_weights on any non-empty profile leaves the
\* weighted_interest values summing to 1 with their ratios preserved; on an
\* empty profile it changes nothing.
C20_NormaliseAnyNonEmptyProfile ==
    f_result.kind = "normalise_weights" =>
        IF DOMAIN f_profile.interests = {}
        THEN f_result.profile = f_profile
        ELSE /\ SumsToOne(f_result.profile.interests)
             /\ RatiosPreserved(f_profile.interests, f_result.profile.interests)

\* C20, amended: normalise_weights on a profile whose weights have a non-zero
\* sum leaves them summing to 1 with their ratios preserved and total_weight
\* 1; on a profile whose weights sum to 0 (the empty profile, or topics that
\* all weigh 0) it changes no weight and leaves total_weight 0.
C20_NormaliseNonZeroProfile ==
    f_result.kind = "normalise_weights" =>
        IF WeightSum(f_profile.interests) = 0
        THEN /\ f_result.profile.interests = f_profile.interests
             /\ f_result.profile.total_weight = 0
        ELSE /\ SumsToOne(f_result.profile.interests)
             /\ RatiosPreserved(f_profile.interests, f_result.profile.interests)
             /\ f_result.profile.total_weight = Scale

\* C20 witness: the weights {politics: 2, technology: 2} have become
\* {politics: 0.5, technology: 0.5}.
C20_Witness ==
    /\ f_result.kind = "normalise_weights"
    /\ f_profile.interests =
         [t \in {"politics", "technology"} |-> Topic(2000, 500)]
    /\ f_result.profile.interests =
         [t \in {"politics", "technology"} |-> Topic(500, 500)]

----------------------------------------------------------------------------
(* Profiles between the ticks of a session *)

\* a profile as the ticks must leave it: weights summing to 1.0, or no topic
Normalised(p) ==
    IF DOMAIN p.interests = {} THEN WeightSum(p.interests) = 0
    ELSE SumsToOne(p.interests)

\* C19: after every Simulation tick the interest profile of every agent, of
\* every post and of every comment in the pool is normalised: its
\* weighted_interest values sum to 1, or it is empty with sum 0.
C19_ProfilesNormalisedBetweenTicks ==
    /\ \A i \in DOMAIN agents : Normalised(agents[i].interest_profile)
    /\ \A k \in DOMAIN content_pool :
         /\ Normalised(content_pool[k].interest_profile)
         /\ \A c \in DOMAIN content_pool[k].comments :
              Normalised(content_pool[k].comments[c].interest_profile)

\* C19 witness: ticks have run, the Individual has taken up two topics from
\* what it read, and a comment it wrote with that profile is in the pool.
C19_Witness ==
    /\ clock >= 3
    /\ Cardinality(DOMAIN agents[1].interest_profile.interests) = 2
    /\ \E k \in DOMAIN content_pool :
         \E c \in DOMAIN content_pool[k].comments :
            /\ content_pool[k].comments[c].interest_profile
                  = agents[1].interest_profile
            /\ content_pool[k].comments[c] \notin
                  {StockComment(id, l) : id \in Ids, l \in 1..2}

----------------------------------------------------------------------------
(* Properties of the InterestProfile operations *)

\* the vector that holds each tag's weight at the tag's index in the table,
\* and zero elsewhere
TableVector(interests) ==
    [i \in 0..(VecDim - 1) |->
        IF \E t \in DOMAIN interests : tag_to_index[t] = i
        THEN interests[CHOOSE t \in DOMAIN interests :
                          tag_to_index[t] = i].weighted_interest
        ELSE 0]

\* C21: after normalise_weights on a profile with non-zero total weight,
\* vector_representation[i] is the normalised weighted_interest of the tag the
\* tag table maps to index i, and zero at every other position.
C21_VectorEncodesWeights ==
    (/\ f_result.kind = "normalise_weights"
     /\ WeightSum(f_profile.interests) # 0) =>
        f_result.profile.vector_representation
            = TableVector(f_result.profile.interests)

\* the receiver's topics with source.weight(tag) * intensity added for every
\* tag of the source, a tag the receiver lacks starting from weight 0 and
\* agreement 0
Blended(receiver, source, intensity) ==
    [t \in DOMAIN receiver \cup DOMAIN source |->
        Topic((IF t \in DOMAIN receiver THEN receiver[t].weighted_interest ELSE 0)
              + (IF t \in DOMAIN source
                 THEN (source[t].weighted_interest * intensity) \div Scale ELSE 0),
              IF t \in DOMAIN receiver THEN receiver[t].agreement ELSE 0)]

\* the blend this update was to make
UpdateBlend ==
    Blended(f_profile.interests, f_result.source.interests, f_result.interest)

SameAgreements(a, b) ==
    /\ DOMAIN a = DOMAIN b
    /\ \A t \in DOMAIN a : a[t].agreement = b[t].agreement

\* C22 as stated: update_interest_from_profile(source, intensity) adds
\* source.weight(tag) * intensity to the receiver's weight for every tag of
\* source, creating missing tags with weight 0 and agreement 0 first, and then
\* renormalises the receiver so that its weights sum to 1; the source is not
\* changed.
C22_UpdateLeavesSumOne ==
    f_result.kind = "update_interest_from_profile" =>
        /\ SameAgreements(f_result.profile.interests, UpdateBlend)
        /\ RatiosPreserved(UpdateBlend, f_result.profile.interests)
        /\ SumsToOne(f_result.profile.interests)
        /\ f_result.source_after = f_result.source

\* C22, amended: the update adds source.weight(tag) * intensity for every tag
\* of source, missing tags starting from weight 0 and agreement 0, and leaves
\* the source as it was; the receiver's weights then sum to 1 in the ratios of
\* the blend when the blend's weights have a non-zero sum, and are the
\* blend's own weights, all 0, with total_weight 0 when they do not.
C22_UpdateBlendsAndNormalises ==
    f_result.kind = "update_interest_from_profile" =>
        /\ SameAgreements(f_result.profile.interests, UpdateBlend)
        /\ f_result.source_after = f_result.source
        /\ IF WeightSum(UpdateBlend) = 0
           THEN /\ f_result.profile.interests = UpdateBlend
                /\ f_result.profile.total_weight = 0
           ELSE /\ RatiosPreserved(UpdateBlend, f_result.profile.interests)
                /\ SumsToOne(f_result.profile.interests)
                /\ f_result.profile.total_weight = Scale

\* C22 witness: a receiver holding politics at 1.0 has taken technology and
\* science from the source at intensity 0.1: 0.05 each, 0.045 once renormalised.
C22_Witness ==
    /\ f_result.kind = "update_interest_from_profile"
    /\ f_result.interest = 100
    /\ f_profile.interests = [t \in {"politics"} |-> Topic(1000, 500)]
    /\ DOMAIN f_result.source.interests = {"technology", "science"}
    /\ f_result.profile.interests =
         [t \in {"politics", "technology", "science"} |->
            IF t = "politics" THEN Topic(909, 500) ELSE Topic(45, 0)]

\* C23: select_content_tags(min, max) on a non-empty profile returns pairwise
\* distinct tags of that profile, at least min and at most max of them, both
\* capped by the number of tags in the profile (so (2, 2) on a profile of two
\* tags returns both, once each).
C23_SelectedTagsDistinctAndCounted ==
    (/\ f_result.kind = "select_content_tags"
     /\ DOMAIN f_profile.interests # {}) =>
        LET tags == f_result.tags
            available == Cardinality(DOMAIN f_profile.interests)
        IN /\ ~f_result.panic
           /\ \A i, j \in DOMAIN tags : i # j => tags[i] # tags[j]
           /\ Range(tags) \subseteq DOMAIN f_profile.interests
           /\ Len(tags) >= Min(f_result.min_tags, available)
           /\ Len(tags) <= Min(f_result.max_tags, available)

\* C24: select_content_tags(min, max) on an empty profile returns an empty
\* tag set for every min and max, min >= 1 included, and never aborts.
C24_EmptyProfileYieldsNoTags ==
    (/\ f_result.kind = "select_content_tags"
     /\ DOMAIN f_profile.interests = {}) =>
        /\ ~f_result.panic
        /\ f_result.tags = <<>>

\* the topics of f_profile that this filtered_clone was to keep
KeptTopics ==
    [t \in f_result.selected_tags \cap DOMAIN f_profile.interests |->
        f_profile.interests[t]]

\* C25 as stated: filtered_clone(tags) returns a new profile whose tag set is
\* exactly the given tags that exist in the source, each kept tag's agreement
\* copied and the weights renormalised to sum to 1, and leaves the source
\* unchanged.
C25_FilteredCloneSumsToOne ==
    f_result.kind = "filtered_clone" =>
        /\ SameAgreements(f_result.profile.interests, KeptTopics)
        /\ RatiosPreserved(KeptTopics, f_result.profile.interests)
        /\ SumsToOne(f_result.profile.interests)
        /\ f_result.self_after = f_profile

\* C25, amended: filtered_clone(tags) returns a new profile whose tag set is
\* exactly the given tags that exist in the source, each kept tag's agreement
\* copied, and leaves the source unchanged; the kept weights are renormalised
\* to sum to 1 when their sum is non-zero, and are copied as they are, with
\* total_weight 0, when no tag is kept or the kept weights are all 0.
C25_FilteredCloneKeepsAndNormalises ==
    f_result.kind = "filtered_clone" =>
        /\ SameAgreements(f_result.profile.interests, KeptTopics)
        /\ f_result.self_after = f_profile
        /\ f_result.profile.vector_representation = ZeroVector
        /\ IF WeightSum(KeptTopics) = 0
           THEN /\ f_result.profile.interests = KeptTopics
                /\ f_result.profile.total_weight = 0
           ELSE /\ RatiosPreserved(KeptTopics, f_result.profile.interests)
                /\ SumsToOne(f_result.profile.interests)
                /\ f_result.profile.total_weight = Scale

\* C25 witness: of {politics: 2.0, technology: 0.5, science: 1.0}, with
\* agreements -0.5, 0.5 and 0.5, the clone for politics and science holds
\* {politics: 0.666, science: 0.333} with the agreements -0.5 and 0.5.
C25_Witness ==
    /\ f_result.kind = "filtered_clone"
    /\ f_result.selected_tags = {"politics", "science"}
    /\ f_profile.interests =
         [t \in ProfileTags |->
            IF t = "politics" THEN Topic(2000, -500)
            ELSE IF t = "technology" THEN Topic(500, 500)
            ELSE Topic(1000, 500)]
    /\ f_result.profile.interests =
         [t \in {"politics", "science"} |->
            IF t = "politics" THEN Topic(666, -500) ELSE Topic(333, 500)]

\* every topic f_profile held is still there with the agreement it had
AgreementsKept(after) ==
    \A t \in DOMAIN f_profile.interests :
        /\ t \in DOMAIN after
        /\ after[t].agreement = f_profile.interests[t].agreement

\* C26: the agreement of a topic that already exists in a profile is not
\* changed by normalise_weights, by update_interest_from_profile /
\* update_interest_from_post, or by a reading tick of the agent that owns the
\* profile.
C26_AgreementNeverChanges ==
    /\ f_result.kind \in {"normalise_weights", "update_interest_from_profile"} =>
          AgreementsKept(f_result.profile.interests)
    /\ f_result.kind = "normalise_weights twice" =>
          AgreementsKept(f_result.once.interests)
          /\ AgreementsKept(f_result.twice.interests)
    /\ f_result.kind = "reading tick" =>
          AgreementsKept(f_result.agent.interest_profile.interests)

\* C26 witness: a reading tick has changed the weights of a profile that held
\* politics with agreement -0.5 and technology with agreement 0.5.
C26_Witness ==
    /\ f_result.kind = "reading tick"
    /\ ~f_result.panic
    /\ DOMAIN f_profile.interests = {"politics", "technology"}
    /\ f_profile.interests["politics"] = Topic(2000, -500)
    /\ f_profile.interests["technology"] = Topic(500, 500)
    /\ f_result.agent.interest_profile.interests["politics"].weighted_interest
          # 2000
    /\ DOMAIN f_result.agent.interest_profile.interests = ProfileTags

WithinRounding(a, b) ==
    /\ DOMAIN a = DOMAIN b
    /\ \A t \in DOMAIN a :
         /\ a[t].weighted_interest - b[t].weighted_interest <= Cardinality(DOMAIN a)
         /\ b[t].weighted_interest - a[t].weighted_interest <= Cardinality(DOMAIN a)

----------------------------------------------------------------------------
(* Reading ticks of the session's Individual *)

\* the profile of the item an agent in ReadingPost or ReadingComments reads
ItemRead(st, pool) ==
    LET post == pool[IndexOfId(pool, st.post_id)] IN
    IF st.kind = "ReadingPost" THEN post.interest_profile
    ELSE post.comments[IndexOfId(post.comments,
            st.current_comment_ids[st.current_comment_index + 1])].interest_profile

\* after the tick the agent is still reading the item it was reading
StillReading(before, after) ==
    /\ after.kind = before.kind
    /\ after.post_id = before.post_id
    /\ after.ticks_spent = before.ticks_spent + 1
    /\ before.kind = "ReadingComments" =>
          after.current_comment_index = before.current_comment_index

\* C28: a tick in ReadingPost or ReadingComments modifies the agent's interest
\* profile only when the agent is still reading the same item afterwards, and
\* then by an update from the item's profile with intensity
\* potential_interest_gain / (ticks_spent + 1), ticks_spent counting this
\* tick; on the tick in which the agent stops reading the item its interest
\* profile is left unchanged.
C28_ProfileChangesOnlyWhileReading ==
    [][\A i \in DOMAIN agents :
          (/\ agents[i].type = "Individual"
           /\ agents[i].state.kind \in {"ReadingPost", "ReadingComments"}
           /\ clock' = clock + 1 /\ aborted' = Running) =>
            LET st == agents[i].state IN
            IF StillReading(st, agents'[i].state)
            THEN agents'[i].interest_profile =
                    update_interest_from_profile(
                        agents[i].interest_profile, ItemRead(st, content_pool),
                        st.potential_interest_gain \div (st.ticks_spent + 1 + 1))
            ELSE agents'[i].interest_profile = agents[i].interest_profile]_vars

====
